---- MODULE Spec2Model ----
(***************************************************************************)
(* A model of the MSM animation asset compiler: the aligned binary codec   *)
(* (binfile.py), the serialisable records (animation.py), the graph        *)
(* assembler (builder.py), the compiler (compiler.py) and the compile run  *)
(* that drives them (anim_maker.py).                                       *)
(*                                                                         *)
(* Strings are sequences of code points.  A float is modelled by an        *)
(* integer-valued double; pack('f') keeps 24 significant bits of it.       *)
(***************************************************************************)
EXTENDS Integers, Sequences, FiniteSets, TLC

VARIABLES
    \* ---- codec harness (SpecCodec) ----
    bf,         \* the BinFile being written: [data, pos, err]
    wlog,       \* what was written: <<[kind, mode, val, before, after]>>
    cphase,     \* "write" | "read" | "idle"
    rf,         \* the BinFile being read back
    rlog,       \* what was read back: <<[val, before, after, err]>>
    \* ---- assembler harness (SpecBuild) ----
    configs,          \* AnimationBuilder.configs, in insertion order
    source_counter,   \* AnimationBuilder._source_counter
    layer_counter,    \* AnimationBuilder._layer_counter
    built,            \* what the last build_all call returned or raised
    \* ---- compile run (SpecRun) ----
    pc,         \* the statement of _process_animations the run is at
    run,        \* the run's inputs and locals
    fs,         \* the output root: directories and files
    fs0,        \* the output root as it was when the run started
    \* ---- image processing harness (SpecImage) ----
    images,     \* the frames on disk: a sequence of alpha grids
    result,     \* what the last call on them returned or raised
    \* ---- the editor table (SpecUi) ----
    rows,       \* the rows of the table, as typed
    ui          \* what pressing Process did with them

codecVars == <<bf, wlog, cphase, rf, rlog>>
buildVars == <<configs, source_counter, layer_counter, built>>
runVars   == <<pc, run, fs, fs0>>
imageVars == <<images, result>>
uiVars    == <<rows, ui>>
vars      == <<bf, wlog, cphase, rf, rlog,
               configs, source_counter, layer_counter, built,
               pc, run, fs, fs0, images, result, rows, ui>>

(***************************************************************************)
(* Arithmetic helpers                                                      *)
(***************************************************************************)
Max(a, b) == IF a >= b THEN a ELSE b
Min(a, b) == IF a <= b THEN a ELSE b
Abs(a) == IF a < 0 THEN -a ELSE a

RECURSIVE Pow2(_)
Pow2(n) == IF n = 0 THEN 1 ELSE 2 * Pow2(n - 1)

RECURSIVE Pow256(_)
Pow256(n) == IF n = 0 THEN 1 ELSE 256 * Pow256(n - 1)

\* floor(log2 v) for v >= 1
RECURSIVE Log2(_)
Log2(v) == IF v <= 1 THEN 0 ELSE 1 + Log2(v \div 2)

(***************************************************************************)
(* Bind(e, Op) is Op(e) with e evaluated once: every operator below that   *)
(* threads a file through a chain of calls binds it on entry, which keeps  *)
(* the evaluation of a chain linear in its length.                         *)
(***************************************************************************)
Bind(e, Op(_)) == CHOOSE r \in {Op(x) : x \in {e}} : TRUE

(***************************************************************************)
(* binfile.py: the sizes                                                   *)
(***************************************************************************)
INT8 == 1
INT16 == 2
INT32 == 4
FLOAT == 4
CHUNK == 4

(***************************************************************************)
(* struct.pack / struct.unpack                                             *)
(***************************************************************************)
\* little-endian two's complement of val in size bytes
IntBytes(val, size) == [i \in 1..size |-> (val \div Pow256(i - 1)) % 256]

RECURSIVE BytesUInt(_)
BytesUInt(bytes) ==
    IF bytes = <<>> THEN 0 ELSE Head(bytes) + 256 * BytesUInt(Tail(bytes))

BytesInt(bytes) ==
    BytesUInt(SubSeq(bytes, 1, Len(bytes) - 1))
      + (IF bytes[Len(bytes)] >= 128 THEN bytes[Len(bytes)] - 256
         ELSE bytes[Len(bytes)]) * Pow256(Len(bytes) - 1)

\* The values pack(mode, val) accepts (struct.error otherwise).  The model's
\* integers are below 2^31, so 'I' only excludes the negative ones.
InRange(mode, val) ==
    CASE mode = "b" -> val >= -128 /\ val <= 127
      [] mode = "B" -> val >= 0 /\ val <= 255
      [] mode = "h" -> val >= -32768 /\ val <= 32767
      [] mode = "H" -> val >= 0 /\ val <= 65535
      [] mode = "i" -> TRUE
      [] mode = "I" -> val >= 0
      [] OTHER -> TRUE

\* The 24-bit significand q and the exponent e of the binary32 nearest to the
\* integer m >= 1 (round to nearest, ties to even): m ~ q * 2^(e - 23)
Round24(m) ==
    Bind(Log2(m), LAMBDA e0 :
      IF e0 <= 23 THEN [q |-> m * Pow2(23 - e0), e |-> e0]
      ELSE Bind(m \div Pow2(e0 - 23), LAMBDA q0 :
           Bind(m % Pow2(e0 - 23), LAMBDA r :
           Bind(Pow2(e0 - 24), LAMBDA half :
           Bind(IF r > half \/ (r = half /\ q0 % 2 = 1) THEN q0 + 1 ELSE q0, LAMBDA q1 :
             IF q1 = Pow2(24) THEN [q |-> Pow2(23), e |-> e0 + 1]
             ELSE [q |-> q1, e |-> e0])))))

\* IEEE-754 binary32 of an integer-valued double, little-endian
PackFloat(val) ==
    IF val = 0 THEN <<0, 0, 0, 0>>
    ELSE Bind(Round24(Abs(val)), LAMBDA n :
         Bind(n.q - Pow2(23), LAMBDA mant :
           << mant % 256,
              (mant \div 256) % 256,
              ((n.e + 127) % 2) * 128 + (mant \div 65536),
              (IF val < 0 THEN 128 ELSE 0) + ((n.e + 127) \div 2) >>))

\* the integer-valued double a binary32 holds (exponents 0..30 only)
UnpackFloat(bytes) ==
    Bind((bytes[4] % 128) * 2 + (bytes[3] \div 128), LAMBDA biased :
    Bind((bytes[3] % 128) * 65536 + bytes[2] * 256 + bytes[1] + Pow2(23), LAMBDA q :
    Bind(IF biased = 0 THEN 0
         ELSE IF biased - 127 >= 23 THEN q * Pow2(biased - 150)
         ELSE q \div Pow2(150 - biased), LAMBDA mag :
      IF bytes[4] >= 128 THEN -mag ELSE mag)))

Pack(mode, val) ==
    CASE mode = "f" -> PackFloat(val)
      [] mode \in {"b", "B"} -> IntBytes(val, 1)
      [] mode \in {"h", "H"} -> IntBytes(val, 2)
      [] OTHER -> IntBytes(val, 4)

Unpack(mode, bytes) ==
    CASE mode = "f" -> UnpackFloat(bytes)
      [] mode \in {"B", "H", "I"} -> BytesUInt(bytes)
      [] OTHER -> BytesInt(bytes)

\* str.encode('ascii') / bytes.decode('ascii') succeed
IsAscii(string) == \A i \in 1..Len(string) : string[i] <= 127

(***************************************************************************)
(* binfile.py: class BinFile                                               *)
(***************************************************************************)
\* open(filename, 'wb+'): an empty file, cursor 0
NewBinFile == [data |-> <<>>, pos |-> 0, err |-> FALSE]

\* seek(offset, WHENCE_CURRENT)
Seek(f0, offset) == Bind(f0, LAMBDA f : [f EXCEPT !.pos = f.pos + offset])

\* fp.write(bytes): a write past the end fills the gap with zero bytes
FpWrite(f0, bytes0) ==
    Bind(f0, LAMBDA f : Bind(bytes0, LAMBDA bytes :
      IF Len(bytes) = 0 THEN f
      ELSE [f EXCEPT
             !.data = [i \in 1..Max(Len(f.data), f.pos + Len(bytes)) |->
                         IF i > f.pos /\ i <= f.pos + Len(bytes) THEN bytes[i - f.pos]
                         ELSE IF i <= Len(f.data) THEN f.data[i]
                         ELSE 0],
             !.pos = f.pos + Len(bytes)]))

\* fp.read(n): at most n bytes, fewer at the end of the file; n < 0 reads all
FpRead(f0, n) ==
    Bind(f0, LAMBDA f :
    Bind(IF n < 0 THEN Max(0, Len(f.data) - f.pos)
         ELSE Min(n, Max(0, Len(f.data) - f.pos)), LAMBDA got :
      [f |-> [f EXCEPT !.pos = f.pos + got],
       v |-> SubSeq(f.data, f.pos + 1, f.pos + got)]))

StringSeek_ZeroWhenAligned(f, string) ==
    Seek(f, (CHUNK - (Len(string) % CHUNK)) % CHUNK)

\* __stringSeek
StringSeek(f, string) ==
    Seek(f, IF Len(string) % CHUNK # 0 THEN CHUNK - (Len(string) % CHUNK) ELSE 4)

AlignSeek_AlwaysSkip(f0, size) ==
    Bind(f0, LAMBDA f : Seek(f, size - (f.pos % size)))

\* __alignSeek
AlignSeek(f0, size) ==
    Bind(f0, LAMBDA f :
      Seek(f, IF f.pos % size # 0 THEN size - (f.pos % size) ELSE 0))

ModeSize(mode) ==
    CASE mode \in {"b", "B"} -> INT8
      [] mode \in {"h", "H"} -> INT16
      [] mode \in {"i", "I"} -> INT32
      [] mode = "f" -> FLOAT

\* read(size): the bytes read, fewer than size at the end of the file
Read(f, size) == FpRead(AlignSeek(f, size), size)

\* write(mode, val); pack raises after the cursor was aligned
Write(f0, mode, val) ==
    Bind(f0, LAMBDA f :
      IF f.err THEN f
      ELSE Bind(AlignSeek(f, ModeSize(mode)), LAMBDA g :
             IF InRange(mode, val) THEN FpWrite(g, Pack(mode, val))
             ELSE [g EXCEPT !.err = TRUE]))

Fail(r) == [f |-> [r.f EXCEPT !.err = TRUE], v |-> r.v]

\* readUInt8 .. readFloat: unpack raises on a short read
ReadScalar(f0, mode) ==
    Bind(f0, LAMBDA f :
      IF f.err THEN [f |-> f, v |-> 0]
      ELSE Bind(Read(f, ModeSize(mode)), LAMBDA r :
             IF Len(r.v) = ModeSize(mode)
             THEN [f |-> r.f, v |-> Unpack(mode, r.v)]
             ELSE Fail([f |-> r.f, v |-> 0])))

\* a readString that takes the length field as the byte count
ReadString_WholeLengthField(f0) ==
    Bind(ReadScalar(f0, "I"), LAMBDA n :
      IF n.f.err THEN [f |-> n.f, v |-> <<>>]
      ELSE Bind(FpRead(n.f, n.v), LAMBDA r :
             IF IsAscii(r.v)
             THEN [f |-> StringSeek(r.f, r.v), v |-> r.v]
             ELSE Fail([f |-> r.f, v |-> <<>>])))

\* readString
ReadString(f0) ==
    Bind(ReadScalar(f0, "I"), LAMBDA n :
      IF n.f.err THEN [f |-> n.f, v |-> <<>>]
      ELSE Bind(FpRead(n.f, n.v - 1), LAMBDA r :
             IF IsAscii(r.v)
             THEN [f |-> StringSeek(r.f, r.v), v |-> r.v]
             ELSE Fail([f |-> r.f, v |-> <<>>])))

\* a writeString whose length field is len(string)
WriteString_PlainLength(f0, string) ==
    Bind(Write(f0, "I", Len(string)), LAMBDA g :
      IF g.err THEN g
      ELSE IF IsAscii(string) THEN StringSeek(FpWrite(g, string), string)
      ELSE [g EXCEPT !.err = TRUE])

\* writeString
WriteString(f0, string) ==
    Bind(Write(f0, "I", Len(string) + 1), LAMBDA g :
      IF g.err THEN g
      ELSE IF IsAscii(string) THEN StringSeek(FpWrite(g, string), string)
      ELSE [g EXCEPT !.err = TRUE])

(***************************************************************************)
(* animation.py: the records and their write / read methods                *)
(***************************************************************************)
UNSET == -1
SET == 0
NONE == 1
ImmediateStates == {UNSET, SET, NONE}

NORMAL == 0
ADDITIVE == 1
SUBTRACTIVE == 2
BlendModes == {NORMAL, ADDITIVE, SUBTRACTIVE}

\* ImmediateState.write / read (cls(value) raises on a value of no member)
WriteImmediate(f, st) == Write(f, "b", st)
ReadImmediate(f0) ==
    Bind(ReadScalar(f0, "b"), LAMBDA r :
      IF r.f.err \/ r.v \in ImmediateStates THEN r ELSE Fail(r))

\* BlendMode.write / read
WriteBlend(f, blend) == Write(f, "I", blend)
ReadBlend(f0) ==
    Bind(ReadScalar(f0, "I"), LAMBDA r :
      IF r.f.err \/ r.v \in BlendModes THEN r ELSE Fail(r))

\* Position.write / read
WritePosition(f, p) ==
    Write(Write(WriteImmediate(f, p.immediate), "f", p.x), "f", p.y)
ReadPosition(f0) ==
    Bind(ReadImmediate(f0), LAMBDA a :
    Bind(ReadScalar(a.f, "f"), LAMBDA b :
    Bind(ReadScalar(b.f, "f"), LAMBDA c :
      [f |-> c.f, v |-> [immediate |-> a.v, x |-> b.v, y |-> c.v]])))

\* Scale.write / read
WriteScale(f, p) ==
    Write(Write(WriteImmediate(f, p.immediate), "f", p.x), "f", p.y)
ReadScale(f0) ==
    Bind(ReadImmediate(f0), LAMBDA a :
    Bind(ReadScalar(a.f, "f"), LAMBDA b :
    Bind(ReadScalar(b.f, "f"), LAMBDA c :
      [f |-> c.f, v |-> [immediate |-> a.v, x |-> b.v, y |-> c.v]])))

\* Value.write / read
WriteValue(f, p) == Write(WriteImmediate(f, p.immediate), "f", p.value)
ReadValue(f0) ==
    Bind(ReadImmediate(f0), LAMBDA a :
    Bind(ReadScalar(a.f, "f"), LAMBDA b :
      [f |-> b.f, v |-> [immediate |-> a.v, value |-> b.v]]))

\* Color.write / read
WriteColor(f, c) ==
    Write(Write(Write(WriteImmediate(f, c.immediate), "b", c.r), "b", c.g), "b", c.b)
ReadColor(f0) ==
    Bind(ReadImmediate(f0), LAMBDA a :
    Bind(ReadScalar(a.f, "b"), LAMBDA r :
    Bind(ReadScalar(r.f, "b"), LAMBDA g :
    Bind(ReadScalar(g.f, "b"), LAMBDA b :
      [f |-> b.f, v |-> [immediate |-> a.v, r |-> r.v, g |-> g.v, b |-> b.v]]))))

\* Sprite.write / read
WriteSprite(f, s) == WriteString(WriteImmediate(f, s.immediate), s.name)
ReadSprite(f0) ==
    Bind(ReadImmediate(f0), LAMBDA a :
    Bind(ReadString(a.f), LAMBDA n :
      [f |-> n.f, v |-> [immediate |-> a.v, name |-> n.v]]))

\* Frame.write
WriteFrame(f, fr) ==
    WriteColor(
      WriteSprite(
        WriteValue(
          WriteValue(
            WriteScale(
              WritePosition(Write(f, "f", fr.time), fr.position),
              fr.scale),
            fr.rotation),
          fr.opacity),
        fr.sprite),
      fr.color)

\* Frame.read
ReadFrame(f0) ==
    Bind(ReadScalar(f0, "f"), LAMBDA t :
    Bind(ReadPosition(t.f), LAMBDA p :
    Bind(ReadScale(p.f), LAMBDA s :
    Bind(ReadValue(s.f), LAMBDA r :
    Bind(ReadValue(r.f), LAMBDA o :
    Bind(ReadSprite(o.f), LAMBDA n :
    Bind(ReadColor(n.f), LAMBDA c :
      [f |-> c.f,
       v |-> [time |-> t.v, position |-> p.v, scale |-> s.v, rotation |-> r.v,
              opacity |-> o.v, sprite |-> n.v, color |-> c.v]])))))))

\* for frame in self.frames: frame.write(bf)
RECURSIVE WriteFrames(_, _)
WriteFrames(f0, frames0) ==
    Bind(f0, LAMBDA f : Bind(frames0, LAMBDA frames :
      IF frames = <<>> THEN f
      ELSE WriteFrames(WriteFrame(f, Head(frames)), Tail(frames))))

\* [Frame.read(bf) for _ in range(n)]
RECURSIVE ReadFrames(_, _)
ReadFrames(f0, n) ==
    Bind(f0, LAMBDA f :
      IF n <= 0 \/ f.err THEN [f |-> f, v |-> <<>>]
      ELSE Bind(ReadFrame(f), LAMBDA a :
           Bind(ReadFrames(a.f, n - 1), LAMBDA rest :
             [f |-> rest.f, v |-> <<a.v>> \o rest.v])))

\* Layer.write
WriteLayer(f, l) ==
    WriteFrames(
      Write(
        WriteString(
          Write(Write(
            Write(Write(
              Write(Write(Write(
                WriteBlend(
                  Write(WriteString(f, l.name), "i", l.type),
                  l.blend),
                "h", l.parent), "h", l.id), "h", l.source),
              "H", l.width), "H", l.height),
            "f", l.anchor_x), "f", l.anchor_y),
          l.metadata),
        "I", Len(l.frames)),
      l.frames)

\* Layer.read
ReadLayer(f0) ==
    Bind(ReadString(f0), LAMBDA a :
    Bind(ReadScalar(a.f, "i"), LAMBDA b :
    Bind(ReadBlend(b.f), LAMBDA c :
    Bind(ReadScalar(c.f, "h"), LAMBDA d :
    Bind(ReadScalar(d.f, "h"), LAMBDA e :
    Bind(ReadScalar(e.f, "h"), LAMBDA g :
    Bind(ReadScalar(g.f, "H"), LAMBDA h :
    Bind(ReadScalar(h.f, "H"), LAMBDA i :
    Bind(ReadScalar(i.f, "f"), LAMBDA j :
    Bind(ReadScalar(j.f, "f"), LAMBDA k :
    Bind(ReadString(k.f), LAMBDA m :
    Bind(ReadScalar(m.f, "I"), LAMBDA n :
    Bind(ReadFrames(n.f, n.v), LAMBDA frs :
      [f |-> frs.f,
       v |-> [name |-> a.v, type |-> b.v, blend |-> c.v, parent |-> d.v,
              id |-> e.v, source |-> g.v, width |-> h.v, height |-> i.v,
              anchor_x |-> j.v, anchor_y |-> k.v, metadata |-> m.v,
              frames |-> frs.v]])))))))))))))

\* for layer in self.layers: layer.write(bf)
RECURSIVE WriteLayers(_, _)
WriteLayers(f0, layers0) ==
    Bind(f0, LAMBDA f : Bind(layers0, LAMBDA layers :
      IF layers = <<>> THEN f
      ELSE WriteLayers(WriteLayer(f, Head(layers)), Tail(layers))))

\* [Layer.read(bf) for _ in range(n)]
RECURSIVE ReadLayers(_, _)
ReadLayers(f0, n) ==
    Bind(f0, LAMBDA f :
      IF n <= 0 \/ f.err THEN [f |-> f, v |-> <<>>]
      ELSE Bind(ReadLayer(f), LAMBDA a :
           Bind(ReadLayers(a.f, n - 1), LAMBDA rest :
             [f |-> rest.f, v |-> <<a.v>> \o rest.v])))

\* Animation.write
WriteAnimation(f, a) ==
    WriteLayers(
      Write(
        Write(
          Write(
            Write(Write(WriteString(f, a.name), "H", a.width), "H", a.height),
            "f", a.loop_offset),
          "I", a.centered),
        "I", Len(a.layers)),
      a.layers)

\* Animation.read
ReadAnimation(f0) ==
    Bind(ReadString(f0), LAMBDA a :
    Bind(ReadScalar(a.f, "H"), LAMBDA b :
    Bind(ReadScalar(b.f, "H"), LAMBDA c :
    Bind(ReadScalar(c.f, "f"), LAMBDA d :
    Bind(ReadScalar(d.f, "I"), LAMBDA e :
    Bind(ReadScalar(e.f, "I"), LAMBDA n :
    Bind(ReadLayers(n.f, n.v), LAMBDA ls :
      [f |-> ls.f,
       v |-> [name |-> a.v, width |-> b.v, height |-> c.v, loop_offset |-> d.v,
              centered |-> e.v, layers |-> ls.v]])))))))

\* Source.write
WriteSource(f, s) ==
    Write(Write(Write(WriteString(f, s.path), "H", s.id), "H", s.width), "H", s.height)

\* Source.read
ReadSource(f0) ==
    Bind(ReadString(f0), LAMBDA a :
    Bind(ReadScalar(a.f, "H"), LAMBDA b :
    Bind(ReadScalar(b.f, "H"), LAMBDA c :
    Bind(ReadScalar(c.f, "H"), LAMBDA d :
      [f |-> d.f, v |-> [path |-> a.v, id |-> b.v, width |-> c.v, height |-> d.v]]))))

\* for source in sources: source.write(bf)
RECURSIVE WriteSources(_, _)
WriteSources(f0, sources0) ==
    Bind(f0, LAMBDA f : Bind(sources0, LAMBDA sources :
      IF sources = <<>> THEN f
      ELSE WriteSources(WriteSource(f, Head(sources)), Tail(sources))))

RECURSIVE ReadSources(_, _)
ReadSources(f0, n) ==
    Bind(f0, LAMBDA f :
      IF n <= 0 \/ f.err THEN [f |-> f, v |-> <<>>]
      ELSE Bind(ReadSource(f), LAMBDA a :
           Bind(ReadSources(a.f, n - 1), LAMBDA rest :
             [f |-> rest.f, v |-> <<a.v>> \o rest.v])))

\* for animation in animations: animation.write(bf)
RECURSIVE WriteAnimations(_, _)
WriteAnimations(f0, animations0) ==
    Bind(f0, LAMBDA f : Bind(animations0, LAMBDA animations :
      IF animations = <<>> THEN f
      ELSE WriteAnimations(WriteAnimation(f, Head(animations)), Tail(animations))))

RECURSIVE ReadAnimations(_, _)
ReadAnimations(f0, n) ==
    Bind(f0, LAMBDA f :
      IF n <= 0 \/ f.err THEN [f |-> f, v |-> <<>>]
      ELSE Bind(ReadAnimation(f), LAMBDA a :
           Bind(ReadAnimations(a.f, n - 1), LAMBDA rest :
             [f |-> rest.f, v |-> <<a.v>> \o rest.v])))

(***************************************************************************)
(* SpecCodec: a writer makes up to MaxOps calls on a new BinFile, starting *)
(* at a cursor of its choice; a reader then makes the matching read calls  *)
(* from the same start.                                                    *)
(***************************************************************************)
MaxOps == 2
MaxStart == 3

\* a double that binary32 does not hold: 2^24 + 1
BigOdd == Pow2(24) + 1

ScalarArgs == { <<"b", -1>>, <<"H", 65535>>, <<"i", -3>>, <<"f", -70>> }

\* strings of 0, 3, 4, 5 and 8 bytes
StringArgs ==
    { <<>>, <<97, 98, 99>>, <<73, 100, 108, 101>>, <<97, 46, 120, 109, 108>>,
      <<102, 114, 97, 109, 101, 95, 48, 49>> }

SourceArgs ==
    { [path |-> <<97, 46, 120, 109, 108>>, id |-> 1, width |-> 192, height |-> 65535] }

SampleFrame(time, name) ==
    [time |-> time,
     position |-> [immediate |-> SET, x |-> 0, y |-> -70],
     scale |-> [immediate |-> NONE, x |-> 192, y |-> 96],
     rotation |-> [immediate |-> SET, value |-> 0],
     opacity |-> [immediate |-> SET, value |-> 100],
     sprite |-> [immediate |-> SET, name |-> name],
     color |-> [immediate |-> UNSET, r |-> -1, g |-> 127, b |-> -128]]

FrameArgs ==
    { SampleFrame(3, <<102, 114, 97, 109, 101, 95, 48, 48, 48>>),
      SampleFrame(BigOdd, <<102, 114>>) }

SampleLayer(frames) ==
    [name |-> <<65, 110, 105, 109>>, type |-> 1, blend |-> ADDITIVE, parent |-> -1,
     id |-> 3, source |-> 0, width |-> 192, height |-> 192,
     anchor_x |-> 0, anchor_y |-> 2, metadata |-> <<>>, frames |-> frames]

LayerArgs ==
    { SampleLayer(<<SampleFrame(0, <<102, 48>>), SampleFrame(1, <<102, 49, 50, 51>>)>>) }

SampleAnimation(name, layers) ==
    [name |-> name, width |-> 192, height |-> 192, loop_offset |-> 0,
     centered |-> 1, layers |-> layers]

AnimationArgs ==
    { SampleAnimation(<<73, 100, 108, 101>>, <<>>),
      SampleAnimation(<<87>>, <<SampleLayer(<<SampleFrame(2, <<102, 48, 49>>)>>)>>) }

RecordKinds == {"Source", "Frame", "Layer", "Animation"}

\* the matching read method
ReadItem(f, kind, mode) ==
    CASE kind = "scalar" -> ReadScalar(f, mode)
      [] kind = "string" -> ReadString(f)
      [] kind = "Source" -> ReadSource(f)
      [] kind = "Frame" -> ReadFrame(f)
      [] kind = "Layer" -> ReadLayer(f)
      [] kind = "Animation" -> ReadAnimation(f)

NotBuilt ==
    [status |-> "none", error |-> "", sources |-> <<>>, animations |-> <<>>,
     frame_counts |-> <<>>]

BuildIdle ==
    /\ configs = <<>>
    /\ source_counter = 0
    /\ layer_counter = 0
    /\ built = NotBuilt

RunIdle ==
    /\ pc = "idle"
    /\ run = [id |-> 0]
    /\ fs = {}
    /\ fs0 = {}

ImageIdle ==
    /\ images = <<>>
    /\ result = [op |-> "none"]

UiIdle ==
    /\ rows = <<>>
    /\ ui = [state |-> "idle"]

CodecIdle ==
    /\ bf = NewBinFile
    /\ wlog = <<>>
    /\ cphase = "idle"
    /\ rf = NewBinFile
    /\ rlog = <<>>

CodecInit ==
    /\ \E start \in 0..MaxStart : bf = Seek(NewBinFile, start)
    /\ wlog = <<>>
    /\ cphase = "write"
    /\ rf = NewBinFile
    /\ rlog = <<>>
    /\ BuildIdle
    /\ RunIdle
    /\ ImageIdle
    /\ UiIdle

CanWrite == cphase = "write" /\ Len(wlog) < MaxOps

\* the log entry of a call that moved the cursor from bf.pos to after
Logged(kind, mode, val, after) ==
    Append(wlog, [kind |-> kind, mode |-> mode, val |-> val,
                  before |-> bf.pos, after |-> after])

WriteScalarOp ==
    /\ CanWrite
    /\ \E a \in ScalarArgs :
          /\ bf' = Write(bf, a[1], a[2])
          /\ wlog' = Logged("scalar", a[1], a[2], bf'.pos)
    /\ UNCHANGED <<cphase, rf, rlog, buildVars, runVars, imageVars, uiVars>>

WriteStringOp ==
    /\ CanWrite
    /\ \E string \in StringArgs :
          /\ bf' = WriteString(bf, string)
          /\ wlog' = Logged("string", "", string, bf'.pos)
    /\ UNCHANGED <<cphase, rf, rlog, buildVars, runVars, imageVars, uiVars>>

WriteSourceOp ==
    /\ CanWrite
    /\ \E source \in SourceArgs :
          /\ bf' = WriteSource(bf, source)
          /\ wlog' = Logged("Source", "", source, bf'.pos)
    /\ UNCHANGED <<cphase, rf, rlog, buildVars, runVars, imageVars, uiVars>>

WriteFrameOp ==
    /\ CanWrite
    /\ \E frame \in FrameArgs :
          /\ bf' = WriteFrame(bf, frame)
          /\ wlog' = Logged("Frame", "", frame, bf'.pos)
    /\ UNCHANGED <<cphase, rf, rlog, buildVars, runVars, imageVars, uiVars>>

WriteLayerOp ==
    /\ CanWrite
    /\ \E layer \in LayerArgs :
          /\ bf' = WriteLayer(bf, layer)
          /\ wlog' = Logged("Layer", "", layer, bf'.pos)
    /\ UNCHANGED <<cphase, rf, rlog, buildVars, runVars, imageVars, uiVars>>

WriteAnimationOp ==
    /\ CanWrite
    /\ \E animation \in AnimationArgs :
          /\ bf' = WriteAnimation(bf, animation)
          /\ wlog' = Logged("Animation", "", animation, bf'.pos)
    /\ UNCHANGED <<cphase, rf, rlog, buildVars, runVars, imageVars, uiVars>>

\* the reader opens the file and seeks to the writer's start
StartRead ==
    /\ cphase = "write"
    /\ wlog # <<>>
    /\ cphase' = "read"
    /\ rf' = [data |-> bf.data, pos |-> wlog[1].before, err |-> FALSE]
    /\ UNCHANGED <<bf, wlog, rlog, buildVars, runVars, imageVars, uiVars>>

ReadNext ==
    /\ cphase = "read"
    /\ Len(rlog) < Len(wlog)
    /\ ~rf.err
    /\ \E r \in {ReadItem(rf, wlog[Len(rlog) + 1].kind, wlog[Len(rlog) + 1].mode)} :
          /\ rf' = r.f
          /\ rlog' = Append(rlog, [val |-> r.v, before |-> rf.pos,
                                   after |-> r.f.pos, err |-> r.f.err])
    /\ UNCHANGED <<bf, wlog, cphase, buildVars, runVars, imageVars, uiVars>>

CodecNext ==
    \/ WriteScalarOp
    \/ WriteStringOp
    \/ WriteSourceOp
    \/ WriteFrameOp
    \/ WriteLayerOp
    \/ WriteAnimationOp
    \/ StartRead
    \/ ReadNext

SpecCodec == CodecInit /\ [][CodecNext]_vars

(***************************************************************************)
(* builder.py: AnimationConfig and AnimationBuilder                        *)
(*                                                                         *)
(* A config is a record with the fields of AnimationConfig.  The type is   *)
(* the name of the AnimationType member; a reference_anim of None is the   *)
(* empty string (the code only tests it with `not`).  self.configs is a    *)
(* dict: a sequence of configs with distinct names, in insertion order.    *)
(***************************************************************************)
target_size == 192

\* f"{i:03d}"
RECURSIVE Decimal(_)
Decimal(i) == IF i < 10 THEN <<48 + i>> ELSE Decimal(i \div 10) \o <<48 + (i % 10)>>
Pad03(i) ==
    IF i < 10 THEN <<48, 48>> \o Decimal(i)
    ELSE IF i < 100 THEN <<48>> \o Decimal(i) ELSE Decimal(i)

\* f"frame_{i:03d}"
SpriteName(i) == <<102, 114, 97, 109, 101, 95>> \o Pad03(i)

\* float("inf") as the value of an fps; no other number of the model is as large
Infinity == 2147483647

\* AnimationConfig.frame_time, 1.0 / fps; the configs drawn have an fps that
\* divides 1, so the quotient is an integer-valued double, and 1.0 / inf is 0.0
frame_time(config) == IF config.fps = Infinity THEN 0 ELSE 1 \div config.fps

ConfigNames(cfgs) == {cfgs[i].name : i \in 1..Len(cfgs)}

\* a _create_source that gives every Source the id 0
CreateSource_IdZero(name, common_name, counter) ==
    [path |-> common_name \o <<95>> \o name \o <<46, 120, 109, 108>>,
     id |-> 0, width |-> 0, height |-> 0]

\* AnimationBuilder._create_source
CreateSource(name, common_name, counter) ==
    [path |-> common_name \o <<95>> \o name \o <<46, 120, 109, 108>>,
     id |-> counter, width |-> 0, height |-> 0]

\* AnimationBuilder._create_frames; scale / 100.0 and (100 - scale) * 0.8 are
\* integer-valued for the scales drawn
CreateFrames(frame_count, config) ==
    [k \in 1..frame_count |->
       [time |-> (k - 1) * frame_time(config),
        position |-> [immediate |-> SET,
                      x |-> config.position_x + ((100 - config.scale) * 8) \div 10,
                      y |-> config.position_y + ((100 - config.scale) * 8) \div 10],
        scale |-> [immediate |-> SET,
                   x |-> (target_size * config.scale) \div 100,
                   y |-> (target_size * config.scale) \div 100],
        rotation |-> [immediate |-> SET, value |-> 0],
        opacity |-> [immediate |-> SET, value |-> 100],
        sprite |-> [immediate |-> SET, name |-> SpriteName(k - 1)],
        color |-> [immediate |-> UNSET, r |-> -1, g |-> -1, b |-> -1]]]

\* AnimationBuilder._create_layer, with _layer_counter = counter on entry
CreateLayer(name, frame_count, source_id, config, common_name, counter) ==
    [name |-> <<65, 110, 105, 109, 32, 77, 97, 107, 101, 114, 32>> \o common_name,
     type |-> 1, blend |-> config.blend_mode, parent |-> -1, id |-> counter,
     source |-> source_id, width |-> target_size, height |-> target_size,
     anchor_x |-> 0, anchor_y |-> 0, metadata |-> <<>>,
     frames |-> CreateFrames(frame_count, config)]

\* AnimationBuilder._create_animation
CreateAnimation(name, frame_count, source_id, config, common_name, counter) ==
    [name |-> name, width |-> target_size, height |-> target_size, loop_offset |-> 0,
     centered |-> IF config.centered THEN 1 ELSE 0,
     layers |-> <<CreateLayer(name, frame_count, source_id, config, common_name, counter)>>]

\* a build_all that does not reset the counters
BuildStart_KeepCounters ==
    [sources |-> <<>>, animations |-> <<>>, source_map |-> <<>>,
     processed_names |-> {}, source_counter |-> source_counter,
     layer_counter |-> layer_counter, error |-> ""]

\* the locals and counters of build_all after the counters are reset
BuildStart ==
    [sources |-> <<>>, animations |-> <<>>, source_map |-> <<>>,
     processed_names |-> {}, source_counter |-> 0, layer_counter |-> 0, error |-> ""]

\* source_map[name] = source
MapSet(map, name, source) ==
    [n \in (DOMAIN map) \cup {name} |-> IF n = name THEN source ELSE map[n]]

\* one FOLDER config of the first pass
BuildFolder(st, config, frame_counts, common_name) ==
    [st EXCEPT
       !.processed_names = @ \cup {config.name},
       !.sources = Append(@, CreateSource(config.name, common_name, st.source_counter)),
       !.source_map = MapSet(@, config.name,
                             CreateSource(config.name, common_name, st.source_counter)),
       !.source_counter = @ + 1,
       !.animations = Append(@, CreateAnimation(config.name, frame_counts[config.name],
                                                st.source_counter, config, common_name,
                                                st.layer_counter)),
       !.layer_counter = @ + 1]

\* build_all, first pass: build folder-based animations
RECURSIVE FirstPass(_, _, _, _)
FirstPass(st0, cfgs, frame_counts, common_name) ==
    Bind(st0, LAMBDA st :
      IF cfgs = <<>> \/ st.error # "" THEN st
      ELSE IF Head(cfgs).type # "FOLDER"
           THEN FirstPass(st, Tail(cfgs), frame_counts, common_name)
      ELSE IF Head(cfgs).name \notin DOMAIN frame_counts
           THEN [st EXCEPT !.error = "No frame count for animation"]
      ELSE FirstPass(BuildFolder(st, Head(cfgs), frame_counts, common_name),
                     Tail(cfgs), frame_counts, common_name))

\* next((a for a in animations if a.name == reference_anim), None), as the set
\* holding the first match or nothing
RefAnim(animations, reference_anim) ==
    { animations[i] : i \in { j \in 1..Len(animations) :
         /\ animations[j].name = reference_anim
         /\ \A k \in 1..(j - 1) : animations[k].name # reference_anim } }

\* a second pass that gives FIRST_FRAME the frame count of its reference
BuildReference_AlwaysCopy(st, config, ref_anim, common_name) ==
    [st EXCEPT
       !.animations = Append(@, CreateAnimation(config.name,
                         Len(ref_anim.layers[1].frames),
                         st.source_map[config.reference_anim].id, config, common_name,
                         st.layer_counter)),
       !.layer_counter = @ + 1,
       !.processed_names = @ \cup {config.name}]

\* a second pass that enters the built animation in source_map under the
\* Source of its reference, so that later configs can refer to it
BuildReference_Registers(st, config, ref_anim, common_name) ==
    [st EXCEPT
       !.animations = Append(@, CreateAnimation(config.name,
                         IF config.type = "FIRST_FRAME" THEN 1
                         ELSE Len(ref_anim.layers[1].frames),
                         st.source_map[config.reference_anim].id, config, common_name,
                         st.layer_counter)),
       !.layer_counter = @ + 1,
       !.source_map = MapSet(@, config.name, st.source_map[config.reference_anim]),
       !.processed_names = @ \cup {config.name}]

\* a second pass that marks the config processed but builds no animation
BuildReference_MarksOnly(st, config, ref_anim, common_name) ==
    [st EXCEPT !.processed_names = @ \cup {config.name}]

\* one COPY or FIRST_FRAME config of the second pass whose reference resolved
BuildReference(st, config, ref_anim, common_name) ==
    [st EXCEPT
       !.animations = Append(@, CreateAnimation(config.name,
                         IF config.type = "FIRST_FRAME" THEN 1
                         ELSE Len(ref_anim.layers[1].frames),
                         st.source_map[config.reference_anim].id, config, common_name,
                         st.layer_counter)),
       !.layer_counter = @ + 1,
       !.processed_names = @ \cup {config.name}]

\* build_all, second pass: build reference-based animations
RECURSIVE SecondPass(_, _, _)
SecondPass(st0, cfgs, common_name) ==
    Bind(st0, LAMBDA st :
      IF cfgs = <<>> \/ st.error # "" THEN st
      ELSE IF Head(cfgs).type = "FOLDER" \/ Head(cfgs).name \in st.processed_names
           THEN SecondPass(st, Tail(cfgs), common_name)
      ELSE IF Head(cfgs).reference_anim = <<>>
           THEN [st EXCEPT !.error = "No reference animation specified"]
      ELSE IF RefAnim(st.animations, Head(cfgs).reference_anim) = {}
           THEN [st EXCEPT !.error = "Reference animation not found"]
      ELSE IF Head(cfgs).reference_anim \notin DOMAIN st.source_map
           THEN [st EXCEPT !.error = "Reference source not found"]
      ELSE SecondPass(
             BuildReference(st, Head(cfgs),
                            CHOOSE a \in RefAnim(st.animations, Head(cfgs).reference_anim) : TRUE,
                            common_name),
             Tail(cfgs), common_name))

\* build_all, the final check that every config was processed
VerifyProcessed(st, cfgs) ==
    IF st.error = "" /\ ConfigNames(cfgs) \ st.processed_names # {}
    THEN [st EXCEPT !.error = "Some animations were not processed"]
    ELSE st

\* AnimationBuilder.build_all: the locals and counters when it returns
\* (error = "") or raises
BuildAll(cfgs, frame_counts, common_name) ==
    Bind(SecondPass(FirstPass(BuildStart, cfgs, frame_counts, common_name),
                    cfgs, common_name),
         LAMBDA st : VerifyProcessed(st, cfgs))

(***************************************************************************)
(* SpecBuild: the builder driven as _process_animations drives it: reset,  *)
(* add_animation for each config, then build_all                           *)
(***************************************************************************)
MaxConfigs == 3
MaxFrames == 2

Idle == <<73, 100, 108, 101>>
Walk == <<87, 97, 108, 107>>
Hit == <<72, 105, 116>>
Names == {Idle, Walk, Hit}
Animation_ == <<65, 110, 105, 109, 97, 116, 105, 111, 110>>

\* an AnimationConfig with the dataclass defaults but fps = 1
Config(name, type, source_path, reference_anim) ==
    [name |-> name, type |-> type, source_path |-> source_path,
     reference_anim |-> reference_anim, fps |-> 1, centered |-> TRUE,
     blend_mode |-> NORMAL, position_x |-> 0, position_y |-> -70, scale |-> 100]

BuildConfigArgs ==
    { Config(n, "FOLDER", "frames", <<>>) : n \in Names }
      \cup { [Config(Idle, "FOLDER", "frames", <<>>) EXCEPT !.fps = Infinity] }
      \cup { Config(n, t, "", r) :
               n \in Names, t \in {"COPY", "FIRST_FRAME"}, r \in Names \cup {<<>>} }

\* frame_counts dicts: a count for every name, or for every name but Hit
FrameCountArgs ==
    [Names -> 1..MaxFrames] \cup [Names \ {Hit} -> 1..MaxFrames]

BuildInit ==
    /\ BuildIdle
    /\ CodecIdle
    /\ RunIdle
    /\ ImageIdle
    /\ UiIdle

\* AnimationBuilder.reset
BuilderReset ==
    /\ configs' = <<>>
    /\ source_counter' = 0
    /\ layer_counter' = 0
    /\ built' = NotBuilt
    /\ UNCHANGED <<codecVars, runVars, imageVars, uiVars>>

\* AnimationBuilder.add_animation; a name already in configs raises
AddAnimation ==
    /\ built.status = "none"
    /\ Len(configs) < MaxConfigs
    /\ \E config \in BuildConfigArgs :
          configs' = IF config.name \in ConfigNames(configs) THEN configs
                     ELSE Append(configs, config)
    /\ UNCHANGED <<source_counter, layer_counter, built, codecVars, runVars, imageVars, uiVars>>

\* what the caller of build_all gets: the returned lists, or the error raised
Outcome(st, frame_counts) ==
    IF st.error = ""
    THEN [status |-> "returned", error |-> "", sources |-> st.sources,
          animations |-> st.animations, frame_counts |-> frame_counts]
    ELSE [status |-> "raised", error |-> st.error, sources |-> <<>>,
          animations |-> <<>>, frame_counts |-> frame_counts]

\* AnimationBuilder.build_all, called on the configs added; called again with
\* the same frame_counts, or with any after a frame count was missing
BuildAllOp ==
    /\ \E frame_counts \in IF \/ built.status = "none"
                              \/ built.error = "No frame count for animation"
                           THEN FrameCountArgs
                           ELSE {built.frame_counts} :
         \E st \in {BuildAll(configs, frame_counts, Animation_)} :
            /\ source_counter' = st.source_counter
            /\ layer_counter' = st.layer_counter
            /\ built' = Outcome(st, frame_counts)
    /\ UNCHANGED <<configs, codecVars, runVars, imageVars, uiVars>>

BuildNext ==
    \/ BuilderReset
    \/ AddAnimation
    \/ BuildAllOp

SpecBuild == BuildInit /\ [][BuildNext]_vars

(***************************************************************************)
(* processor.py, as far as a compile run depends on it: which source       *)
(* folders add_animation accepts and how many frames process_all returns   *)
(***************************************************************************)
\* the source folders on disk: whether the path is a directory, how many
\* *.png files it holds and whether every one has a non-transparent pixel
Folders ==
    [missing |-> [is_dir |-> FALSE, pngs |-> 0, opaque |-> TRUE],
     empty   |-> [is_dir |-> TRUE, pngs |-> 0, opaque |-> TRUE],
     frames  |-> [is_dir |-> TRUE, pngs |-> MaxFrames, opaque |-> TRUE],
     one     |-> [is_dir |-> TRUE, pngs |-> 1, opaque |-> TRUE],
     blank   |-> [is_dir |-> TRUE, pngs |-> 1, opaque |-> FALSE]]

\* AnimationProcessor(): animations maps FOLDER names to their sorted paths,
\* animation_types names to types, source_refs COPY and FIRST_FRAME names to
\* the animation they refer to
NewProcessor ==
    [animations |-> <<>>, animation_types |-> <<>>, source_refs |-> <<>>, error |-> ""]

ProcessorNames(proc) == {proc.animations[i].name : i \in 1..Len(proc.animations)}

\* AnimationProcessor.add_animation; a call on a processor whose error is set
\* is a call that was not made
ProcessorAddAnimation(proc, config) ==
    IF proc.error # "" THEN proc
    ELSE IF config.name \in ProcessorNames(proc)
         THEN [proc EXCEPT !.error = "Animation already exists"]
    ELSE IF config.type = "FOLDER"
         THEN IF config.source_path = ""
              THEN [proc EXCEPT !.error = "Source path required"]
              ELSE IF ~Folders[config.source_path].is_dir
              THEN [proc EXCEPT !.error = "Source path is not a directory"]
              ELSE IF Folders[config.source_path].pngs = 0
              THEN [proc EXCEPT
                      !.animations = Append(@, [name |-> config.name, paths |-> 0,
                                                opaque |-> TRUE]),
                      !.error = "No PNG files found"]
              ELSE [proc EXCEPT
                      !.animations = Append(@, [name |-> config.name,
                                                paths |-> Folders[config.source_path].pngs,
                                                opaque |-> Folders[config.source_path].opaque]),
                      !.animation_types = MapSet(@, config.name, config.type)]
    ELSE IF config.type \notin {"COPY", "FIRST_FRAME"}
         THEN [proc EXCEPT !.error = "Unsupported animation type"]
    ELSE IF config.reference_anim = <<>>
         THEN [proc EXCEPT !.error = "Reference animation required"]
    ELSE [proc EXCEPT !.source_refs = MapSet(@, config.name, config.reference_anim),
                      !.animation_types = MapSet(@, config.name, config.type)]

\* for name, config in configs.items(): self.processor.add_animation(...)
RECURSIVE ProcessorAddAll(_, _)
ProcessorAddAll(proc0, cfgs) ==
    Bind(proc0, LAMBDA proc :
      IF cfgs = <<>> THEN proc
      ELSE ProcessorAddAll(ProcessorAddAnimation(proc, Head(cfgs)), Tail(cfgs)))

\* a process_all that also gives a COPY or FIRST_FRAME name a frame
ProcessAll_WithReferences(proc) ==
    IF \E i \in 1..Len(proc.animations) :
          proc.animations[i].name \notin DOMAIN proc.animation_types
    THEN [error |-> "Unexpected error during processing", processed |-> <<>>]
    ELSE IF \A i \in 1..Len(proc.animations) : proc.animations[i].paths = 0
    THEN [error |-> "No frames found to process", processed |-> <<>>]
    ELSE IF \E i \in 1..Len(proc.animations) : ~proc.animations[i].opaque
    THEN [error |-> "Failed to compute global bounding box", processed |-> <<>>]
    ELSE [error |-> "",
          processed |->
            [i \in 1..Len(proc.animations) |->
               [name |-> proc.animations[i].name,
                frames |-> proc.animations[i].paths]]
              \o (IF DOMAIN proc.source_refs = {} THEN <<>>
                  ELSE <<[name |-> CHOOSE n \in DOMAIN proc.source_refs : TRUE,
                          frames |-> 1]>>)]

\* AnimationProcessor.process_all: the error raised, or "" and the frames of
\* every animation of self.animations, in order; self.animations holds the
\* FOLDER names only, so the COPY and FIRST_FRAME branches of the loop never run
ProcessAll(proc) ==
    IF \E i \in 1..Len(proc.animations) :
          proc.animations[i].name \notin DOMAIN proc.animation_types
    THEN [error |-> "Unexpected error during processing", processed |-> <<>>]
    ELSE IF \A i \in 1..Len(proc.animations) : proc.animations[i].paths = 0
    THEN [error |-> "No frames found to process", processed |-> <<>>]
    ELSE IF \E i \in 1..Len(proc.animations) : ~proc.animations[i].opaque
    THEN [error |-> "Failed to compute global bounding box", processed |-> <<>>]
    ELSE [error |-> "",
          processed |-> [i \in 1..Len(proc.animations) |->
                           [name |-> proc.animations[i].name,
                            frames |-> proc.animations[i].paths]]]

(***************************************************************************)
(* compiler.py: class Compiler, over an output root that is a set of       *)
(* directories and a set of files                                          *)
(***************************************************************************)
OutputDirs == {"", "gfx", "gfx/bori", "xml_resources", "xml_bin"}

\* OutputPaths.create: mkdir(parents=True, exist_ok=True) of the three directories
CreateOutputPaths(root) == [root EXCEPT !.dirs = @ \cup OutputDirs]

Png == <<46, 112, 110, 103>>
Xml == <<46, 120, 109, 108>>
Bin == <<46, 98, 105, 110>>
Watermark ==
    <<99, 114, 101, 97, 116, 101, 100, 32, 98, 121, 32, 98, 111, 114, 101, 97,
      108, 105, 115, 32, 38, 32, 114, 105, 111, 116, 108, 111, 118, 101>>
BASENAME == <<66, 65, 83, 69, 78, 65, 77, 69>>

\* the index of the "]" that closes the set opened by pattern[1] = "[", or 0;
\* a "]" right after the "[" is a member of the set
ClassEnd(pattern) ==
    IF \E k \in 3..Len(pattern) : pattern[k] = 93
    THEN CHOOSE k \in 3..Len(pattern) :
           pattern[k] = 93 /\ \A j \in 3..(k - 1) : pattern[j] # 93
    ELSE 0

\* the match of a file name against a glob pattern: "*" is any text, "?" any
\* character, "[...]" one of the characters listed (the names drawn have no
\* "!" or "-" in a set), anything else itself
RECURSIVE FnMatch(_, _)
FnMatch(name, pattern) ==
    IF pattern = <<>> THEN name = <<>>
    ELSE IF Head(pattern) = 42
    THEN \E k \in 0..Len(name) :
            FnMatch(SubSeq(name, k + 1, Len(name)), Tail(pattern))
    ELSE IF name = <<>> THEN FALSE
    ELSE IF Head(pattern) = 63 THEN FnMatch(Tail(name), Tail(pattern))
    ELSE IF Head(pattern) = 91 /\ ClassEnd(pattern) > 0
    THEN /\ \E k \in 2..(ClassEnd(pattern) - 1) : pattern[k] = Head(name)
         /\ FnMatch(Tail(name), SubSeq(pattern, ClassEnd(pattern) + 1, Len(pattern)))
    ELSE Head(name) = Head(pattern) /\ FnMatch(Tail(name), Tail(pattern))

\* glob(f"{prefix}*{suffix}") in a directory
Glob(root, dir, prefix, suffix) ==
    { file \in root.files :
        file.dir = dir /\ FnMatch(file.name, prefix \o <<42>> \o suffix) }

\* a file saved by this run, replacing one of that name
SaveFile(root, dir, name) ==
    [root EXCEPT !.files = { file \in @ : ~(file.dir = dir /\ file.name = name) }
                             \cup {[dir |-> dir, name |-> name, content |-> "run"]}]

\* a cleanup that removes the binary file and leaves the sheets
CleanupOldFiles_BinOnly(root, common_name, bin_name) ==
    [root EXCEPT !.files =
       @ \ { file \in root.files :
               file.dir = "xml_bin" /\ file.name = bin_name \o Bin }]

\* Compiler.cleanup_old_files
CleanupOldFiles(root, common_name, bin_name) ==
    [root EXCEPT !.files =
       (@ \ Glob(root, "gfx/bori", common_name \o <<95>>, Png))
          \ (Glob(root, "xml_resources", common_name \o <<95>>, Xml)
             \cup { file \in root.files :
                      file.dir = "xml_bin" /\ file.name = bin_name \o Bin })]

\* compile_animations, first pass: a spritesheet PNG and an XML for every
\* entry of processed_frames that has frames
RECURSIVE SaveSheets(_, _, _)
SaveSheets(root0, processed, common_name) ==
    Bind(root0, LAMBDA root :
      IF processed = <<>> THEN root
      ELSE IF Head(processed).frames = 0
           THEN SaveSheets(root, Tail(processed), common_name)
      ELSE SaveSheets(
             SaveFile(SaveFile(root, "gfx/bori",
                               common_name \o <<95>> \o Head(processed).name \o Png),
                      "xml_resources",
                      common_name \o <<95>> \o Head(processed).name \o Xml),
             Tail(processed), common_name))

\* Compiler._create_sprite_xml: the n attributes of the sprite entries, one for
\* every frame position of the sheet
CreateSpriteXml(frame_count) == [i \in 1..frame_count |-> SpriteName(i - 1)]

\* compile_animations, first pass: the XML files written, by file name
RECURSIVE SheetXmls(_, _)
SheetXmls(processed, common_name) ==
    IF processed = <<>> THEN <<>>
    ELSE IF processed[Len(processed)].frames = 0
         THEN SheetXmls(SubSeq(processed, 1, Len(processed) - 1), common_name)
    ELSE MapSet(SheetXmls(SubSeq(processed, 1, Len(processed) - 1), common_name),
                common_name \o <<95>> \o processed[Len(processed)].name \o Xml,
                CreateSpriteXml(processed[Len(processed)].frames))

\* str.replace(old, new)
RECURSIVE Replace(_, _, _)
Replace(string, old, new) ==
    IF Len(string) < Len(old) THEN string
    ELSE IF SubSeq(string, 1, Len(old)) = old
         THEN new \o Replace(SubSeq(string, Len(old) + 1, Len(string)), old, new)
    ELSE <<Head(string)>> \o Replace(Tail(string), old, new)

\* the keys of xml_paths: the processed names that got a spritesheet
XmlPathKeys(processed) ==
    { processed[i].name : i \in { j \in 1..Len(processed) : processed[j].frames > 0 } }

\* compile_animations, the update of one source: path and, from the first
\* processed frame (an image of target_size), width and height
UpdateSource(source, processed, common_name) ==
    IF Replace(source.path, BASENAME, common_name) \in XmlPathKeys(processed)
    THEN [source EXCEPT
            !.path = common_name \o <<95>>
                       \o Replace(source.path, BASENAME, common_name) \o Xml,
            !.width = target_size,
            !.height = target_size]
    ELSE source

UpdateSources(sources, processed, common_name) ==
    [i \in 1..Len(sources) |-> UpdateSource(sources[i], processed, common_name)]

\* a binary file written without the Int32 0 before the watermark
WriteBin_NoSentinel(f, sources, animations) ==
    WriteString(
      WriteAnimations(
        Write(WriteSources(Write(f, "I", Len(sources)), sources),
              "I", Len(animations)),
        animations),
      Watermark)

\* compile_animations, the binary file
WriteBin(f, sources, animations) ==
    WriteString(
      Write(
        WriteAnimations(
          Write(WriteSources(Write(f, "I", Len(sources)), sources),
                "I", Len(animations)),
          animations),
        "i", 0),
      Watermark)

\* Compiler.compile_animations: the output root, the sources as updated and the
\* binary file when it returns or raises; BinFile(..., write=True) creates the
\* file before the first write
CompileAnimations(root, processed, sources, animations, bin_name, common_name) ==
    Bind(UpdateSources(sources, processed, common_name), LAMBDA updated :
    Bind(WriteBin(NewBinFile, updated, animations), LAMBDA f :
      [root |-> SaveFile(SaveSheets(root, processed, common_name),
                         "xml_bin", bin_name \o Bin),
       sources |-> updated,
       atlases |-> SheetXmls(processed, common_name),
       bf |-> f,
       error |-> IF f.err THEN "binary write failed" ELSE ""]))

(***************************************************************************)
(* SpecRun: one compile run, AnimationManager._process_animations, a step  *)
(* per statement                                                           *)
(***************************************************************************)
Idl_e == <<73, 100, 108, 233>>
RunNames == {Idle, Walk, Idl_e}
Out == <<111, 117, 116>>

\* the configs the table can hold: a FOLDER row has a source folder, a COPY or
\* FIRST_FRAME row a reference
RunConfigArgs ==
    { Config(n, "FOLDER", path, <<>>) :
        n \in RunNames, path \in {"missing", "empty", "frames", "blank"} }
      \cup { Config(n, t, "", r) :
               n \in RunNames, t \in {"COPY", "FIRST_FRAME"}, r \in RunNames }

\* an animation name that is the XML file name of Animation_'s Idle
Animation_Idle_xml == Animation_ \o <<95>> \o Idle \o Xml

XmlNamedSeqs ==
    { <<Config(Idle, "FOLDER", "frames", <<>>),
        Config(Animation_Idle_xml, "FOLDER", "one", <<>>)>>,
      <<Config(Animation_Idle_xml, "FOLDER", "frames", <<>>),
        Config(Idle, "FOLDER", "one", <<>>),
        Config(Walk, "FIRST_FRAME", "", Idle)>> }

\* get_configs: a dict, so the names of its rows are distinct
RECURSIVE ConfigSeqs(_)
ConfigSeqs(n) ==
    IF n = 0 THEN {<<>>}
    ELSE ConfigSeqs(n - 1)
           \cup UNION { { Append(cfgs, config) :
                            config \in { c \in RunConfigArgs : c.name \notin ConfigNames(cfgs) } } :
                        cfgs \in { c \in ConfigSeqs(n - 1) : Len(c) = n - 1 } }

\* _on_process stops when get_configs returns no row
\* and tables with an animation that has the name of another one's XML file
RunConfigSeqs == (ConfigSeqs(MaxConfigs) \ {<<>>}) \cup XmlNamedSeqs

\* a common name that is a glob set: "[A]"
BracketA == <<91, 65, 93>>

\* the common names of the runs drawn: the default for every table, and the
\* glob set for the tables of one row
CommonNames(cfgs) == IF Len(cfgs) = 1 THEN {Animation_, BracketA} ELSE {Animation_}

Previous(dir, name) == [dir |-> dir, name |-> name, content |-> "previous"]

\* the output root when the run starts: just created, or holding the output
\* of an earlier run and a file of the user's
FreshRoot == [dirs |-> {""}, files |-> {}]
UsedRoot ==
    [dirs |-> OutputDirs,
     files |-> { Previous("gfx/bori", Animation_ \o <<95>> \o Idle \o Png),
                 Previous("xml_resources", Animation_ \o <<95>> \o Idle \o Xml),
                 Previous("gfx/bori", Animation_ \o <<95>> \o Hit \o Png),
                 Previous("xml_resources", Animation_ \o <<95>> \o Hit \o Xml),
                 Previous("gfx/bori", BracketA \o <<95>> \o Hit \o Png),
                 Previous("xml_bin", Out \o Bin),
                 Previous("", <<110, 111, 116, 101, 115>>) }]
RootArgs == {FreshRoot, UsedRoot}

\* the statements of _process_animations, in order
Stages ==
    << "reset", "validate", "setup_processor", "process_all", "setup_builder",
       "build_all", "set_output_path", "cleanup_old_files", "compile_animations",
       "verify", "debug_info", "done" >>

\* a variant of the run that prepares the output root before anything else
Stages_OutputFirst ==
    << "reset", "set_output_path", "cleanup_old_files", "validate",
       "setup_processor", "process_all", "setup_builder", "build_all",
       "compile_animations", "verify", "debug_info", "done" >>

Position(seq, x) == CHOOSE i \in 1..Len(seq) : seq[i] = x

\* the statement that follows stage when stage does not raise
After_OutputFirst(stage) == Stages_OutputFirst[Position(Stages_OutputFirst, stage) + 1]

After(stage) == Stages[Position(Stages, stage) + 1]

\* what a run left behind: the names of its files, the bytes of the binary
\* file, the processed frames and the graph
NoFirst ==
    [files |-> {}, data |-> <<>>, processed_frames |-> <<>>, sources |-> <<>>,
     animations |-> <<>>]

RunInit ==
    /\ pc = "reset"
    /\ \E cfgs \in RunConfigSeqs :
        \E common_name \in CommonNames(cfgs) :
          run = [configs |-> cfgs, common_name |-> common_name, bin_name |-> Out,
                 processor |-> NewProcessor, processed_frames |-> <<>>,
                 sources |-> <<>>, animations |-> <<>>, atlases |-> <<>>,
                 error |-> "", failed_at |-> "", round |-> 1, first |-> NoFirst]
    /\ fs \in RootArgs
    /\ fs0 = fs
    /\ BuildIdle
    /\ CodecIdle
    /\ ImageIdle
    /\ UiIdle

\* raise inside the try block: the RuntimeError leaves _process_animations
Raise(stage, error) ==
    /\ pc' = "failed"
    /\ run' = [run EXCEPT !.error = error, !.failed_at = stage]

\* a start of the run that replaces the processor and keeps the builder
RunReset_KeepBuilder ==
    /\ pc = "reset"
    /\ run' = [run EXCEPT !.processor = NewProcessor]
    /\ pc' = After("reset")
    /\ UNCHANGED <<buildVars, fs, fs0, codecVars, imageVars, uiVars>>

\* self.builder.reset(); self.processor = AnimationProcessor()
RunReset ==
    /\ pc = "reset"
    /\ configs' = <<>>
    /\ source_counter' = 0
    /\ layer_counter' = 0
    /\ built' = NotBuilt
    /\ run' = [run EXCEPT !.processor = NewProcessor]
    /\ pc' = After("reset")
    /\ UNCHANGED <<fs, fs0, codecVars, imageVars, uiVars>>

\* validate all folder paths exist
ValidateFolders ==
    /\ pc = "validate"
    /\ IF \E i \in 1..Len(run.configs) :
            /\ run.configs[i].type = "FOLDER"
            /\ ~Folders[run.configs[i].source_path].is_dir
       THEN Raise("validate", "Source folder not found")
       ELSE pc' = After("validate") /\ run' = run
    /\ UNCHANGED <<fs, fs0, buildVars, codecVars, imageVars, uiVars>>

\* setup processor with configurations
SetupProcessor ==
    /\ pc = "setup_processor"
    /\ \E proc \in {ProcessorAddAll(run.processor, run.configs)} :
          IF proc.error # ""
          THEN /\ pc' = "failed"
               /\ run' = [run EXCEPT !.processor = proc, !.error = proc.error,
                                     !.failed_at = "setup_processor"]
          ELSE /\ pc' = After("setup_processor")
               /\ run' = [run EXCEPT !.processor = proc]
    /\ UNCHANGED <<fs, fs0, buildVars, codecVars, imageVars, uiVars>>

\* process all frames
ProcessAllFrames ==
    /\ pc = "process_all"
    /\ \E r \in {ProcessAll(run.processor)} :
          IF r.error # "" THEN Raise("process_all", r.error)
          ELSE IF r.processed = <<>> THEN Raise("process_all", "No frames were processed")
          ELSE /\ pc' = After("process_all")
               /\ run' = [run EXCEPT !.processed_frames = r.processed]
    /\ UNCHANGED <<fs, fs0, buildVars, codecVars, imageVars, uiVars>>

\* AnimationBuilder.add_animation for every config: a name the builder
\* already holds raises ValueError
RECURSIVE BuilderAddAll(_, _)
BuilderAddAll(held, new) ==
    IF new = <<>> THEN [configs |-> held, error |-> ""]
    ELSE IF Head(new).name \in ConfigNames(held)
         THEN [configs |-> held, error |-> "Animation already exists"]
    ELSE BuilderAddAll(Append(held, Head(new)), Tail(new))

\* setup builder with configurations
SetupBuilder ==
    /\ pc = "setup_builder"
    /\ \E added \in {BuilderAddAll(configs, run.configs)} :
          /\ configs' = added.configs
          /\ IF added.error # "" THEN Raise("setup_builder", added.error)
             ELSE pc' = After("setup_builder") /\ run' = run
    /\ UNCHANGED <<source_counter, layer_counter, built, fs, fs0, codecVars, imageVars, uiVars>>

\* frame_counts = {name: len(frames) for name, frames in processed_frames.items()}
FrameCounts(processed) ==
    [name \in {processed[i].name : i \in 1..Len(processed)} |->
       (CHOOSE e \in {processed[i] : i \in 1..Len(processed)} : e.name = name).frames]

\* build animation data structures; verify animations were built
BuildGraph ==
    /\ pc = "build_all"
    /\ \E st \in {BuildAll(configs, FrameCounts(run.processed_frames), run.common_name)} :
          /\ source_counter' = st.source_counter
          /\ layer_counter' = st.layer_counter
          /\ built' = Outcome(st, FrameCounts(run.processed_frames))
          /\ IF st.error # "" THEN Raise("build_all", st.error)
             ELSE IF st.animations = <<>> THEN Raise("build_all", "No animations were built")
             ELSE /\ pc' = After("build_all")
                  /\ run' = [run EXCEPT !.sources = st.sources,
                                        !.animations = st.animations]
    /\ UNCHANGED <<configs, fs, fs0, codecVars, imageVars, uiVars>>

\* self.compiler.set_output_path(output_path)
SetOutputPath ==
    /\ pc = "set_output_path"
    /\ fs' = CreateOutputPaths(fs)
    /\ pc' = After("set_output_path")
    /\ UNCHANGED <<run, fs0, buildVars, codecVars, imageVars, uiVars>>

\* self.compiler.cleanup_old_files(common_name, bin_name)
CleanupStep ==
    /\ pc = "cleanup_old_files"
    /\ fs' = CleanupOldFiles(fs, run.common_name, run.bin_name)
    /\ pc' = After("cleanup_old_files")
    /\ UNCHANGED <<run, fs0, buildVars, codecVars, imageVars, uiVars>>

\* self.compiler.compile_animations(...)
CompileStep ==
    /\ pc = "compile_animations"
    /\ \E r \in {CompileAnimations(fs, run.processed_frames, run.sources,
                                   run.animations, run.bin_name, run.common_name)} :
          /\ fs' = r.root
          /\ bf' = r.bf
          /\ IF r.error # ""
             THEN /\ pc' = "failed"
                  /\ run' = [run EXCEPT !.sources = r.sources, !.atlases = r.atlases,
                                        !.error = r.error,
                                        !.failed_at = "compile_animations"]
             ELSE /\ pc' = After("compile_animations")
                  /\ run' = [run EXCEPT !.sources = r.sources,
                                        !.atlases = r.atlases]
    /\ UNCHANGED <<fs0, buildVars, wlog, cphase, rf, rlog, imageVars, uiVars>>

\* a check that looks for the binary file only
FilesCreated_BinOnly(root, common_name, bin_name) ==
    \E file \in root.files : file.dir = "xml_bin" /\ file.name = bin_name \o Bin

\* gfx_files and xml_files are not empty and bin_file.exists()
FilesCreated(root, common_name, bin_name) ==
    /\ Glob(root, "gfx/bori", common_name \o <<95>>, Png) # {}
    /\ Glob(root, "xml_resources", common_name \o <<95>>, Xml) # {}
    /\ \E file \in root.files : file.dir = "xml_bin" /\ file.name = bin_name \o Bin

\* check if files were created
VerifyFiles ==
    /\ pc = "verify"
    /\ IF ~FilesCreated(fs, run.common_name, run.bin_name)
       THEN Raise("verify", "Failed to create all required output files")
       ELSE pc' = After("verify") /\ run' = run
    /\ UNCHANGED <<fs, fs0, buildVars, codecVars, imageVars, uiVars>>

\* save debug information: output_path / 'debug_info.json'
SaveDebugInfo ==
    /\ pc = "debug_info"
    /\ fs' = SaveFile(fs, "", <<100, 101, 98, 117, 103, 95, 105, 110, 102, 111,
                                46, 106, 115, 111, 110>>)
    /\ pc' = After("debug_info")
    /\ UNCHANGED <<run, fs0, buildVars, codecVars, imageVars, uiVars>>

\* the files of the output root that this run saved
RunFiles == { file \in fs.files : file.content = "run" }

\* Process once more after a run that succeeded: _process_animations with the
\* same configs, names and output root, on the same builder and compiler; what
\* the first run wrote is now what was there before
RunAgain ==
    /\ pc = "done"
    /\ run.round = 1
    /\ run' = [run EXCEPT
                 !.round = 2,
                 !.first = [files |-> { <<file.dir, file.name>> : file \in RunFiles },
                            data |-> bf.data,
                            processed_frames |-> run.processed_frames,
                            sources |-> run.sources,
                            animations |-> run.animations],
                 !.processed_frames = <<>>,
                 !.sources = <<>>,
                 !.animations = <<>>,
                 !.atlases = <<>>]
    /\ \E root \in {[fs EXCEPT !.files = { Previous(file.dir, file.name) : file \in @ }]} :
          fs' = root /\ fs0' = root
    /\ pc' = "reset"
    /\ UNCHANGED <<buildVars, codecVars, imageVars, uiVars>>

RunNext ==
    \/ RunAgain
    \/ RunReset
    \/ ValidateFolders
    \/ SetupProcessor
    \/ ProcessAllFrames
    \/ SetupBuilder
    \/ BuildGraph
    \/ SetOutputPath
    \/ CleanupStep
    \/ CompileStep
    \/ VerifyFiles
    \/ SaveDebugInfo

SpecRun == RunInit /\ [][RunNext]_vars

(***************************************************************************)
(* SpecRegistry: add_animation called on one AnimationProcessor with any   *)
(* arguments, a call after a call that raised included                     *)
(***************************************************************************)
MaxCalls == 3

\* the arguments of add_animation: a name, a type, a source folder or a
\* reference
RegistryArgs ==
    { Config(n, "FOLDER", path, <<>>) : n \in {Idle, Walk}, path \in {""} \cup DOMAIN Folders }
      \cup { Config(n, t, "", r) :
               n \in {Idle, Walk}, t \in {"COPY", "FIRST_FRAME"}, r \in {<<>>, Idle} }

RegistryInit ==
    /\ pc = "registry"
    /\ run = [processor |-> NewProcessor, before |-> NewProcessor,
              config |-> Config(<<>>, "", "", <<>>), error |-> "", calls |-> 0]
    /\ fs = {}
    /\ fs0 = {}
    /\ BuildIdle
    /\ CodecIdle
    /\ ImageIdle
    /\ UiIdle

\* one call of AnimationProcessor.add_animation: the registries after it and
\* the error it raised
AddAnimationCall ==
    /\ pc = "registry"
    /\ run.calls < MaxCalls
    /\ \E config \in RegistryArgs :
         \E proc \in {ProcessorAddAnimation(run.processor, config)} :
            run' = [processor |-> [proc EXCEPT !.error = ""],
                    before |-> run.processor,
                    config |-> config,
                    error |-> proc.error,
                    calls |-> run.calls + 1]
    /\ UNCHANGED <<pc, fs, fs0, buildVars, codecVars, imageVars, uiVars>>

\* AnimationProcessor.process_all on the registries as they are
ProcessAllCall ==
    /\ pc = "registry"
    /\ run.calls > 0
    /\ pc' = "processed"
    /\ run' = [run EXCEPT !.error = ProcessAll(run.processor).error]
    /\ UNCHANGED <<fs, fs0, buildVars, codecVars, imageVars, uiVars>>

RegistryNext ==
    \/ AddAnimationCall
    \/ ProcessAllCall

SpecRegistry == RegistryInit /\ [][RegistryNext]_vars

(***************************************************************************)
(* ui.py and anim_maker.py: the editor's rows, the Process button and the  *)
(* <<ProcessAnimations>> handler.  A row holds the text of its widgets.    *)
(***************************************************************************)
IsSpace(ch) == ch \in {9, 10, 11, 12, 13, 32}

\* str.strip()
RECURSIVE Strip(_)
Strip(text) ==
    IF text = <<>> THEN <<>>
    ELSE IF IsSpace(Head(text)) THEN Strip(Tail(text))
    ELSE IF IsSpace(text[Len(text)]) THEN Strip(SubSeq(text, 1, Len(text) - 1))
    ELSE text

IsDigits(text) == text # <<>> /\ \A k \in 1..Len(text) : text[k] \in 48..57

RECURSIVE DigitsValue(_)
DigitsValue(text) ==
    IF text = <<>> THEN 0
    ELSE 10 * DigitsValue(SubSeq(text, 1, Len(text) - 1)) + (text[Len(text)] - 48)

\* float(text) for the texts of the rows drawn: blanks around an optional
\* sign and decimal digits give the number, "inf" gives infinity, anything
\* else ValueError
ParseFloat(text) ==
    Bind(Strip(text), LAMBDA t :
      IF IsDigits(t) THEN [ok |-> TRUE, value |-> DigitsValue(t)]
      ELSE IF t = <<105, 110, 102>> THEN [ok |-> TRUE, value |-> Infinity]
      ELSE IF Len(t) > 1 /\ t[1] = 45 /\ IsDigits(Tail(t))
           THEN [ok |-> TRUE, value |-> 0 - DigitsValue(Tail(t))]
      ELSE IF Len(t) > 1 /\ t[1] = 43 /\ IsDigits(Tail(t))
           THEN [ok |-> TRUE, value |-> DigitsValue(Tail(t))]
      ELSE [ok |-> FALSE, value |-> 0])

NoConfig(message) == [ok |-> FALSE, message |-> message, config |-> Config(<<>>, "", "", <<>>)]

\* AnimationEntry.get_config: the AnimationConfig of the row, or None and
\* the message shown
GetConfig(row) ==
    IF Strip(row.name) = <<>> THEN NoConfig("")
    ELSE IF \/ ~ParseFloat(row.fps).ok
            \/ ParseFloat(row.fps).value <= 0
            \/ ~ParseFloat(row.position_x).ok
            \/ ~ParseFloat(row.position_y).ok
            \/ ~ParseFloat(row.scale).ok
    THEN NoConfig("Invalid value")
    ELSE IF row.type = "FOLDER" /\ row.source = ""
    THEN NoConfig("No source folder specified")
    ELSE IF row.type = "FOLDER" /\ ~Folders[row.source].is_dir
    THEN NoConfig("Invalid source folder")
    ELSE IF row.type # "FOLDER" /\ row.target = <<>>
    THEN NoConfig("No reference animation specified")
    ELSE [ok |-> TRUE, message |-> "",
          config |->
            [Config(Strip(row.name), row.type,
                    IF row.type = "FOLDER" THEN row.source ELSE "",
                    IF row.type = "FOLDER" THEN <<>> ELSE row.target)
               EXCEPT !.fps = ParseFloat(row.fps).value,
                      !.position_x = ParseFloat(row.position_x).value,
                      !.position_y = ParseFloat(row.position_y).value,
                      !.scale = ParseFloat(row.scale).value]]

\* AnimationTable.get_configs from the k-th entry on: the dict as the
\* sequence of its values, and the messages shown
RECURSIVE GetConfigsFrom(_, _, _, _)
GetConfigsFrom(entries, k, cfgs, shown) ==
    IF k > Len(entries) THEN [configs |-> cfgs, shown |-> shown]
    ELSE Bind(GetConfig(entries[k]), LAMBDA got :
      IF ~got.ok
      THEN GetConfigsFrom(entries, k + 1, cfgs,
                          IF got.message = "" THEN shown ELSE Append(shown, got.message))
      ELSE IF got.config.name \in ConfigNames(cfgs)
      THEN [configs |-> <<>>, shown |-> Append(shown, "Duplicate animation name")]
      ELSE GetConfigsFrom(entries, k + 1, Append(cfgs, got.config), shown))

GetConfigs(entries) == GetConfigsFrom(entries, 1, <<>>, <<>>)

(***************************************************************************)
(* SpecUi: rows in the table, a click on Process, the handler              *)
(***************************************************************************)
MaxRows == 2

Idle_ == Idle \o <<32>>
One == <<49>>
Zero == <<48>>
Hundred == <<49, 48, 48>>
MinusFive == <<45, 53>>
Abc == <<97, 98, 99>>
New == <<110, 101, 119>>

Row(name, fps, position_x, scale, type, source, target) ==
    [name |-> name, fps |-> fps, position_x |-> position_x, position_y |-> Zero,
     scale |-> scale, type |-> type, source |-> source, target |-> target]

\* rows as the editor can hold them: well-formed FOLDER and COPY rows, rows
\* with one field wrong, and a row without a name
RowArgs ==
    UNION { { Row(n, One, Zero, Hundred, "FOLDER", "frames", <<>>),
              Row(n, One, Zero, Hundred, "COPY", "", Idle),
              Row(n, Abc, Zero, Hundred, "FOLDER", "frames", <<>>),
              Row(n, Zero, Zero, Hundred, "FOLDER", "frames", <<>>),
              Row(n, MinusFive, Zero, Hundred, "FOLDER", "frames", <<>>),
              Row(n, One, <<>>, Hundred, "FOLDER", "frames", <<>>),
              Row(n, One, Zero, Abc, "COPY", "", Idle),
              Row(n, One, Zero, Hundred, "FOLDER", "", <<>>),
              Row(n, One, Zero, Hundred, "FOLDER", "missing", <<>>),
              Row(n, One, Zero, Hundred, "FIRST_FRAME", "", <<>>) } :
            n \in {Idle, Walk} }
      \cup { Row(Idle, <<105, 110, 102>>, Zero, Hundred, "FOLDER", "frames", <<>>) }
      \cup { Row(Idle_, One, Zero, Hundred, "FOLDER", "frames", <<>>),
             Row(<<32>>, One, Zero, Hundred, "FOLDER", "frames", <<>>) }

RECURSIVE RowSeqs(_)
RowSeqs(n) ==
    IF n = 0 THEN {<<>>}
    ELSE RowSeqs(n - 1)
           \cup { Append(seq, row) :
                    seq \in { q \in RowSeqs(n - 1) : Len(q) = n - 1 }, row \in RowArgs }

\* the text of the output field, and the folders that exist
OutputArgs == {<<>>, Out, New}
Existing == {Out}

UiInit ==
    /\ rows \in RowSeqs(MaxRows)
    /\ ui = [state |-> "idle", configs |-> <<>>, shown |-> <<>>, output |-> <<>>,
             common_name |-> <<>>, bin_name |-> <<>>, created |-> FALSE]
    /\ CodecIdle
    /\ BuildIdle
    /\ RunIdle
    /\ ImageIdle

\* AnimationUI._process: the Process button; create answers the question
\* whether to create an output folder that does not exist
Process ==
    /\ ui.state # "event"
    /\ \E output \in OutputArgs, create \in BOOLEAN :
         \E got \in {GetConfigs(rows)} :
            ui' = [ui EXCEPT
                     !.configs = <<>>,
                     !.shown = IF got.configs = <<>> THEN got.shown
                               ELSE IF Strip(output) = <<>>
                               THEN Append(got.shown, "No output folder specified")
                               ELSE got.shown,
                     !.output = output,
                     !.created = got.configs # <<>> /\ Strip(output) # <<>>
                                   /\ Strip(output) \notin Existing /\ create,
                     !.state = IF \/ got.configs = <<>>
                                  \/ Strip(output) = <<>>
                                  \/ (Strip(output) \notin Existing /\ ~create)
                               THEN "stopped" ELSE "event"]
    /\ UNCHANGED <<rows, codecVars, buildVars, runVars, imageVars>>

\* AnimationManager._on_process up to its call of _process_animations
OnProcess ==
    /\ ui.state = "event"
    /\ \E common \in {<<>>, Animation_}, bin \in {<<>>, Out} :
         \E got \in {GetConfigs(rows)} :
            ui' = [ui EXCEPT
                     !.configs = got.configs,
                     !.shown = got.shown,
                     !.common_name = IF Strip(common) = <<>> THEN Animation_
                                     ELSE Strip(common),
                     !.bin_name = IF Strip(bin) = <<>> THEN Strip(ui.output)
                                  ELSE Strip(bin),
                     !.state = IF got.configs = <<>> THEN "stopped" ELSE "compiling"]
    /\ UNCHANGED <<rows, codecVars, buildVars, runVars, imageVars>>

UiNext ==
    \/ Process
    \/ OnProcess

SpecUi == UiInit /\ [][UiNext]_vars

(***************************************************************************)
(* processor.py: BoundingBox and ImageProcessor over alpha channels.  An   *)
(* image is its alpha channel, data[:, :, 3]: a sequence of rows, each a   *)
(* sequence of alpha values; row and column indices count from 0.          *)
(***************************************************************************)
Height(image) == Len(image)
Width(image) == Len(image[1])

\* np.any(alpha > 0, axis=1) and axis=0, as the sets np.where returns
OpaqueRows(image) ==
    { r \in 0..(Height(image) - 1) : \E c \in 1..Width(image) : image[r + 1][c] > 0 }
OpaqueCols(image) ==
    { c \in 0..(Width(image) - 1) : \E r \in 1..Height(image) : image[r][c + 1] > 0 }

\* np.where(...)[0][[0, -1]]
First(S) == CHOOSE x \in S : \A y \in S : x <= y
Last(S) == CHOOSE x \in S : \A y \in S : x >= y

NoBox == [left |-> 0, top |-> 0, right |-> 0, bottom |-> 0]

\* a find_bbox whose right and bottom are the last opaque column and row
FindBbox_Inclusive(image) ==
    IF OpaqueRows(image) = {} \/ OpaqueCols(image) = {}
    THEN [error |-> "Image appears to be empty (fully transparent)", box |-> NoBox]
    ELSE [error |-> "",
          box |-> [left |-> First(OpaqueCols(image)), top |-> First(OpaqueRows(image)),
                   right |-> Last(OpaqueCols(image)),
                   bottom |-> Last(OpaqueRows(image))]]

\* ImageProcessor.find_bbox
FindBbox(image) ==
    IF OpaqueRows(image) = {} \/ OpaqueCols(image) = {}
    THEN [error |-> "Image appears to be empty (fully transparent)", box |-> NoBox]
    ELSE [error |-> "",
          box |-> [left |-> First(OpaqueCols(image)), top |-> First(OpaqueRows(image)),
                   right |-> Last(OpaqueCols(image)) + 1,
                   bottom |-> Last(OpaqueRows(image)) + 1]]

\* a BoundingBox.update that keeps the larger left and top
Update_MaxEverywhere(self, other) ==
    [left |-> Max(self.left, other.left), top |-> Max(self.top, other.top),
     right |-> Max(self.right, other.right), bottom |-> Max(self.bottom, other.bottom)]

\* BoundingBox.update
Update(self, other) ==
    [left |-> Min(self.left, other.left), top |-> Min(self.top, other.top),
     right |-> Max(self.right, other.right), bottom |-> Max(self.bottom, other.bottom)]

\* compute_global_bbox, the loop over image_paths[1:]
RECURSIVE UpdateWithRemaining(_, _)
UpdateWithRemaining(g0, paths) ==
    Bind(g0, LAMBDA g :
      IF paths = <<>> \/ g.error # "" THEN g
      ELSE IF FindBbox(Head(paths)).error # ""
           THEN [error |-> "Failed to process image", box |-> NoBox]
      ELSE UpdateWithRemaining(
             [error |-> "", box |-> Update(g.box, FindBbox(Head(paths)).box)],
             Tail(paths)))

\* ImageProcessor.compute_global_bbox
ComputeGlobalBbox(image_paths) ==
    IF image_paths = <<>>
    THEN [error |-> "No images provided for processing", box |-> NoBox]
    ELSE IF FindBbox(Head(image_paths)).error # ""
    THEN [error |-> "Failed to process first image", box |-> NoBox]
    ELSE UpdateWithRemaining(FindBbox(Head(image_paths)), Tail(image_paths))

BoxWidth(box) == box.right - box.left
BoxHeight(box) == box.bottom - box.top

RECURSIVE GCD(_, _)
GCD(a, b) == IF b = 0 THEN a ELSE GCD(b, a % b)

IsPow2(n) == \E k \in 0..30 : n = Pow2(k)

\* int(d * (T / m)) in double arithmetic, for 1 <= d <= m: T / m is exact when
\* m / gcd(T, m) is a power of two; otherwise the quotient is rounded, and the
\* product of an exact integer value d * T / m may come out just below it
ScaledOutcomes(d, T, m) ==
    IF IsPow2(m \div GCD(T, m)) THEN {(d * T) \div m}
    ELSE IF (d * T) % m = 0 THEN {(d * T) \div m - 1, (d * T) \div m}
    ELSE {(d * T) \div m}

\* process_frame: (new_width, new_height) for scale = min(T / width, T / height),
\* which is T / max(width, height)
ScaledSizes(width, height, T) ==
    ScaledOutcomes(width, T, Max(width, height))
      \X ScaledOutcomes(height, T, Max(width, height))

\* process_frame: (paste_x, paste_y)
PasteOffset(T, scaled) == << (T - scaled[1]) \div 2, (T - scaled[2]) \div 2 >>

\* a process_frame that crops to the frame's own box
ProcessFrame_OwnBox(image, global_bbox, T, scaled) ==
    [original_size |-> <<Width(image), Height(image)>>,
     original_bbox |-> FindBbox(image).box,
     crop |-> FindBbox(image).box,
     canvas |-> <<T, T>>,
     scaled |-> CHOOSE size \in ScaledSizes(BoxWidth(FindBbox(image).box),
                                            BoxHeight(FindBbox(image).box), T) : TRUE,
     final_offset |->
       PasteOffset(T, CHOOSE size \in ScaledSizes(BoxWidth(FindBbox(image).box),
                                                  BoxHeight(FindBbox(image).box), T) : TRUE)]

\* ImageProcessor.process_frame with target_size T, where scaled is the value
\* of (new_width, new_height) for global_bbox: the box cropped to, the canvas
\* and the place of the scaled image on it
ProcessFrame(image, global_bbox, T, scaled) ==
    [original_size |-> <<Width(image), Height(image)>>,
     original_bbox |-> FindBbox(image).box,
     crop |-> global_bbox,
     canvas |-> <<T, T>>,
     scaled |-> scaled,
     final_offset |-> PasteOffset(T, scaled)]

\* AnimationProcessor.process_all for FOLDER animations given as
\* <<[name, paths]>>: the ProcessingError raised, or "", the global box and for
\* every animation its processed frames; scaled is the value of (new_width,
\* new_height) for the global box; order lists the calls made
RECURSIVE AllFrames(_)
AllFrames(animations) ==
    IF animations = <<>> THEN <<>>
    ELSE Head(animations).paths \o AllFrames(Tail(animations))

ProcessAllImages(animations, scaled) ==
    IF AllFrames(animations) = <<>>
    THEN [error |-> "No frames found to process", box |-> NoBox, processed |-> <<>>,
          order |-> <<>>]
    ELSE Bind(ComputeGlobalBbox(AllFrames(animations)), LAMBDA g :
      IF g.error # ""
      THEN [error |-> "Failed to compute global bounding box", box |-> NoBox,
            processed |-> <<>>, order |-> <<"compute_global_bbox">>]
      ELSE [error |-> "", box |-> g.box,
            processed |->
              [a \in 1..Len(animations) |->
                 [name |-> animations[a].name,
                  frames |-> [k \in 1..Len(animations[a].paths) |->
                     ProcessFrame(animations[a].paths[k], g.box, target_size, scaled)]]],
            order |-> <<"compute_global_bbox">>
                        \o [k \in 1..Len(AllFrames(animations)) |-> "process_frame"]])

(***************************************************************************)
(* compiler.py: the spritesheet packer                                     *)
(***************************************************************************)
\* math.ceil(math.sqrt(n))
CeilSqrt(n) == CHOOSE c \in 0..n : c * c >= n /\ \A d \in 0..(c - 1) : d * d < n

\* math.ceil(n / d)
CeilDiv(n, d) == (n + d - 1) \div d

\* a packer with floor(sqrt(n)) columns
CalculateSpritesheetSize_FloorCols(frame_count, frame_size) ==
    [cols |-> Max(1, CeilSqrt(frame_count + 1) - 1),
     rows |-> CeilDiv(frame_count, Max(1, CeilSqrt(frame_count + 1) - 1)),
     width |-> Max(1, CeilSqrt(frame_count + 1) - 1) * frame_size[1],
     height |-> CeilDiv(frame_count, Max(1, CeilSqrt(frame_count + 1) - 1)) * frame_size[2]]

\* Compiler._calculate_spritesheet_size
CalculateSpritesheetSize(frame_count, frame_size) ==
    [cols |-> CeilSqrt(frame_count),
     rows |-> CeilDiv(frame_count, CeilSqrt(frame_count)),
     width |-> CeilSqrt(frame_count) * frame_size[1],
     height |-> CeilDiv(frame_count, CeilSqrt(frame_count)) * frame_size[2]]

NoSheet == [cols |-> 0, rows |-> 0, width |-> 0, height |-> 0]

\* a packer that wraps the frames after rows of them, not after cols
CreateSpritesheet_WrapAtRows(frames) ==
    IF frames = <<>>
    THEN [error |-> "No frames provided", sheet |-> NoSheet,
          frame_positions |-> <<>>, frame_size |-> <<0, 0>>]
    ELSE Bind(CalculateSpritesheetSize(Len(frames), frames[1]), LAMBDA sheet :
      [error |-> "", sheet |-> sheet,
       frame_positions |->
         [k \in 1..Len(frames) |-> << ((k - 1) % sheet.rows) * frames[1][1],
                                      ((k - 1) \div sheet.rows) * frames[1][2] >>],
       frame_size |-> frames[1]])

\* Compiler._create_spritesheet on frames given by their image sizes: the
\* sheet size, the position of every frame and the frame size, or the error
CreateSpritesheet(frames) ==
    IF frames = <<>>
    THEN [error |-> "No frames provided", sheet |-> NoSheet,
          frame_positions |-> <<>>, frame_size |-> <<0, 0>>]
    ELSE Bind(CalculateSpritesheetSize(Len(frames), frames[1]), LAMBDA sheet :
      [error |-> "", sheet |-> sheet,
       frame_positions |->
         [k \in 1..Len(frames) |-> << ((k - 1) % sheet.cols) * frames[1][1],
                                      ((k - 1) \div sheet.cols) * frames[1][2] >>],
       frame_size |-> frames[1]])

(***************************************************************************)
(* SpecImage: the frames of one source folder, the calls of the image      *)
(* processor on them, and the packer on processed frames                   *)
(***************************************************************************)
MaxW == 2
MaxH == 2
MaxPaths == 3
MaxSheetFrames == 5

\* alpha 0 is transparent, alpha 1 is the least alpha that counts
AlphaValues == {0, 1}

AllImages ==
    UNION { [1..h -> [1..w -> AlphaValues]] : w \in 1..MaxW, h \in 1..MaxH }

\* frames of one size, one of them fully transparent
SampleImages ==
    { <<<<0, 0, 0>>, <<0, 0, 0>>>>,
      <<<<1, 0, 0>>, <<0, 0, 0>>>>,
      <<<<0, 1, 0>>, <<0, 1, 0>>>>,
      <<<<0, 0, 0>>, <<0, 0, 1>>>>,
      <<<<0, 0, 0>>, <<1, 1, 0>>>> }

RECURSIVE SampleSeqs(_)
SampleSeqs(n) ==
    IF n = 0 THEN {<<>>}
    ELSE SampleSeqs(n - 1)
           \cup { Append(seq, image) :
                    seq \in { q \in SampleSeqs(n - 1) : Len(q) = n - 1 },
                    image \in SampleImages }

\* the folders drawn: no frame, any single frame, or several sample frames
ImageSeqs == SampleSeqs(MaxPaths) \cup { <<image>> : image \in AllImages }

\* the image sizes of processed frames handed to the packer
FrameSizes == { <<64, 64>>, <<192, 192>>, <<64, 32>> }

ImageInit ==
    /\ images \in ImageSeqs
    /\ result = [op |-> "none"]
    /\ CodecIdle
    /\ BuildIdle
    /\ RunIdle
    /\ UiIdle

\* ImageProcessor.find_bbox on one frame
FindBboxOp ==
    /\ \E i \in 1..Len(images) :
          result' = [op |-> "find_bbox", image |-> images[i],
                     error |-> FindBbox(images[i]).error,
                     box |-> FindBbox(images[i]).box]
    /\ UNCHANGED <<images, codecVars, buildVars, runVars, uiVars>>

\* ImageProcessor.compute_global_bbox on the frames
ComputeGlobalBboxOp ==
    /\ result' = [op |-> "compute_global_bbox",
                  error |-> ComputeGlobalBbox(images).error,
                  box |-> ComputeGlobalBbox(images).box]
    /\ UNCHANGED <<images, codecVars, buildVars, runVars, uiVars>>

\* the frames as the FOLDER animations of a processor: all in Idle, or the
\* first i in Idle and the others in Walk (a FOLDER animation has a frame)
FolderAnimations(i) ==
    IF images = <<>> THEN <<>>
    ELSE IF i = Len(images) THEN <<[name |-> Idle, paths |-> images]>>
    ELSE <<[name |-> Idle, paths |-> SubSeq(images, 1, i)],
           [name |-> Walk, paths |-> SubSeq(images, i + 1, Len(images))]>>

\* the values (new_width, new_height) can have for the global box of the
\* animations; a pair of zeros when there is no global box
GlobalScaledSizes(animations) ==
    IF animations = <<>> \/ ComputeGlobalBbox(AllFrames(animations)).error # ""
    THEN {<<0, 0>>}
    ELSE ScaledSizes(BoxWidth(ComputeGlobalBbox(AllFrames(animations)).box),
                     BoxHeight(ComputeGlobalBbox(AllFrames(animations)).box),
                     target_size)

\* AnimationProcessor.process_all on the FOLDER animations
ProcessAllOp ==
    /\ \E i \in IF images = <<>> THEN {0} ELSE 1..Len(images) :
         \E scaled \in GlobalScaledSizes(FolderAnimations(i)) :
           \E r \in {ProcessAllImages(FolderAnimations(i), scaled)} :
              result' = [op |-> "process_all", animations |-> FolderAnimations(i),
                         error |-> r.error, box |-> r.box, processed |-> r.processed,
                         order |-> r.order]
    /\ UNCHANGED <<images, codecVars, buildVars, runVars, uiVars>>

\* Compiler._create_spritesheet on n processed frames of one size
CreateSpritesheetOp ==
    /\ \E n \in 0..MaxSheetFrames, size \in FrameSizes :
         \E r \in {CreateSpritesheet([k \in 1..n |-> size])} :
            result' = [op |-> "create_spritesheet", n |-> n, size |-> size,
                       error |-> r.error, sheet |-> r.sheet,
                       frame_positions |-> r.frame_positions,
                       frame_size |-> r.frame_size]
    /\ UNCHANGED <<images, codecVars, buildVars, runVars, uiVars>>

ImageNext ==
    \/ FindBboxOp
    \/ ComputeGlobalBboxOp
    \/ ProcessAllOp
    \/ CreateSpritesheetOp

SpecImage == ImageInit /\ [][ImageNext]_vars

(***************************************************************************)
(* processor.py: process_frame on one global box and one target size       *)
(***************************************************************************)

\* target sizes _validate_target_size accepts: the ends of its range, the
\* default and a small one
TargetSizes == {1, 2, 192, 4096}

\* widths and heights of a global box
BoxSides == {1, 2, 3, 49, 193}

\* one opaque pixel
Pixel == << <<1>> >>

ScaleInit ==
    /\ images = <<Pixel>>
    /\ \E T \in TargetSizes, width \in BoxSides, height \in BoxSides :
         result = [op |-> "frame", target_size |-> T,
                   global_bbox |-> [left |-> 0, top |-> 0,
                                    right |-> width, bottom |-> height]]
    /\ CodecIdle
    /\ BuildIdle
    /\ RunIdle
    /\ UiIdle

\* ImageProcessor.process_frame
ProcessFrameOp ==
    /\ result.op = "frame"
    /\ \E scaled \in ScaledSizes(BoxWidth(result.global_bbox),
                                 BoxHeight(result.global_bbox), result.target_size) :
         result' = [op |-> "process_frame", target_size |-> result.target_size,
                    global_bbox |-> result.global_bbox,
                    frame |-> ProcessFrame(images[1], result.global_bbox,
                                           result.target_size, scaled)]
    /\ UNCHANGED <<images, codecVars, buildVars, runVars, uiVars>>

ScaleNext == ProcessFrameOp

SpecScale == ScaleInit /\ [][ScaleNext]_vars

(***************************************************************************)
(* preview.py: one PreviewWindow, its playback threads and the main        *)
(* thread's callbacks; ui holds the window object                          *)
(***************************************************************************)

\* threads started for one window, entries waiting in the queue, frames, and
\* the greatest value current_frame is followed to
MaxThreads == 2
MaxQueue == 2
MaxPreviewFrames == 2
MaxIndex == 3

\* no image drawn yet
NoFrame == -1

\* PreviewWindow.__init__ on a list of at least one frame: the first playback
\* thread is started and _update is scheduled
PreviewInit ==
    /\ \E n \in 1..MaxPreviewFrames :
         ui = [state |-> "preview", frames |-> n, current_frame |-> 0,
               playing |-> TRUE, queue |-> <<>>,
               threads |-> <<[pc |-> "while", value |-> 0]>>,
               window |-> TRUE, shown |-> NoFrame, error |-> ""]
    /\ rows = <<>>
    /\ CodecIdle
    /\ BuildIdle
    /\ RunIdle
    /\ ImageIdle

\* thread t is at statement pc_
At(t, pc_) == t \in 1..Len(ui.threads) /\ ui.threads[t].pc = pc_

Goto(t, pc_) == [ui EXCEPT !.threads[t].pc = pc_]

\* _animate: while self.playing
AnimateWhile(t) ==
    /\ At(t, "while")
    /\ ui' = Goto(t, IF ui.playing THEN "check" ELSE "exit")
    /\ UNCHANGED <<rows, codecVars, buildVars, runVars, imageVars>>

\* _animate: if self.current_frame >= len(self.frames): self.current_frame = 0
AnimateCheck(t) ==
    /\ At(t, "check")
    /\ ui' = [Goto(t, "put") EXCEPT
                !.current_frame = IF @ >= ui.frames THEN 0 ELSE @]
    /\ UNCHANGED <<rows, codecVars, buildVars, runVars, imageVars>>

\* _animate: self.queue.put(self.current_frame)
AnimatePut(t) ==
    /\ At(t, "put")
    /\ Len(ui.queue) < MaxQueue
    /\ ui' = [Goto(t, "sleep") EXCEPT !.queue = Append(@, ui.current_frame)]
    /\ UNCHANGED <<rows, codecVars, buildVars, runVars, imageVars>>

\* _animate: time.sleep(self.frame_delay) returns; if self.playing
AnimateSleep(t) ==
    /\ At(t, "sleep")
    /\ ui' = Goto(t, IF ui.playing THEN "load" ELSE "while")
    /\ UNCHANGED <<rows, codecVars, buildVars, runVars, imageVars>>

\* _animate: self.current_frame += 1, the read
AnimateLoad(t) ==
    /\ At(t, "load")
    /\ ui' = [Goto(t, "store") EXCEPT !.threads[t].value = ui.current_frame]
    /\ UNCHANGED <<rows, codecVars, buildVars, runVars, imageVars>>

\* _animate: self.current_frame += 1, the write
AnimateStore(t) ==
    /\ At(t, "store")
    /\ ui.threads[t].value < MaxIndex
    /\ ui' = [Goto(t, "while") EXCEPT !.current_frame = ui.threads[t].value + 1,
                                      !.threads[t].value = 0]
    /\ UNCHANGED <<rows, codecVars, buildVars, runVars, imageVars>>

\* _update: one get_nowait of the loop and the image it draws; an IndexError
\* leaves the callback, which is then not scheduled again
Update_ ==
    /\ ui.window
    /\ ui.error = ""
    /\ ui.queue # <<>>
    /\ ui' = IF Head(ui.queue) \in 0..(ui.frames - 1)
             THEN [ui EXCEPT !.queue = Tail(@), !.shown = Head(ui.queue)]
             ELSE [ui EXCEPT !.queue = Tail(@), !.error = "IndexError"]
    /\ UNCHANGED <<rows, codecVars, buildVars, runVars, imageVars>>

\* PreviewWindow.toggle_play; at most MaxThreads threads are started
TogglePlay ==
    /\ ui.window
    /\ ui.playing \/ Len(ui.threads) < MaxThreads
    /\ ui' = IF ui.playing THEN [ui EXCEPT !.playing = FALSE]
             ELSE [ui EXCEPT !.playing = TRUE,
                             !.threads = Append(@, [pc |-> "while", value |-> 0])]
    /\ UNCHANGED <<rows, codecVars, buildVars, runVars, imageVars>>

\* PreviewWindow.close
Close ==
    /\ ui.window
    /\ ui' = [ui EXCEPT !.playing = FALSE, !.window = FALSE]
    /\ UNCHANGED <<rows, codecVars, buildVars, runVars, imageVars>>

PreviewNext ==
    \/ \E t \in 1..MaxThreads : AnimateWhile(t)
    \/ \E t \in 1..MaxThreads : AnimateCheck(t)
    \/ \E t \in 1..MaxThreads : AnimatePut(t)
    \/ \E t \in 1..MaxThreads : AnimateSleep(t)
    \/ \E t \in 1..MaxThreads : AnimateLoad(t)
    \/ \E t \in 1..MaxThreads : AnimateStore(t)
    \/ Update_
    \/ TogglePlay
    \/ Close

SpecPreview == PreviewInit /\ [][PreviewNext]_vars

(***************************************************************************)
(* Claims about the codec, checked under SpecCodec                         *)
(***************************************************************************)
\* the smallest multiple of size that is >= p
AlignUp(p, size) == CHOOSE m \in p..(p + size - 1) : m % size = 0

\* a double that binary32 holds exactly: at most 24 significant bits
F32Exact(v) == v = 0 \/ Abs(v) % Pow2(Max(0, Log2(Abs(v)) - 23)) = 0

FrameFloats(fr) ==
    { fr.time, fr.position.x, fr.position.y, fr.scale.x, fr.scale.y,
      fr.rotation.value, fr.opacity.value }
LayerFloats(l) ==
    {l.anchor_x, l.anchor_y} \cup UNION {FrameFloats(l.frames[i]) : i \in 1..Len(l.frames)}
AnimationFloats(a) ==
    {a.loop_offset} \cup UNION {LayerFloats(a.layers[i]) : i \in 1..Len(a.layers)}
RecordFloats(kind, val) ==
    CASE kind = "Frame" -> FrameFloats(val)
      [] kind = "Layer" -> LayerFloats(val)
      [] kind = "Animation" -> AnimationFloats(val)
      [] OTHER -> {}
FloatsExact(item) == \A v \in RecordFloats(item.kind, item.val) : F32Exact(v)

ReadBack(i) == i <= Len(rlog)
RecordItems == {i \in 1..Len(wlog) : wlog[i].kind \in RecordKinds}
StringItems == {i \in 1..Len(wlog) : wlog[i].kind = "string"}
ScalarItems == {i \in 1..Len(wlog) : wlog[i].kind = "scalar"}

C2_StringEncoding ==
    \A i \in StringItems :
        \E pad \in 1..4 :
           /\ pad = IF Len(wlog[i].val) % 4 # 0 THEN 4 - (Len(wlog[i].val) % 4) ELSE 4
           /\ SubSeq(bf.data, AlignUp(wlog[i].before, 4) + 1, AlignUp(wlog[i].before, 4) + 4)
                = <<Len(wlog[i].val) + 1, 0, 0, 0>>
           /\ SubSeq(bf.data, AlignUp(wlog[i].before, 4) + 5,
                     AlignUp(wlog[i].before, 4) + 4 + Len(wlog[i].val)) = wlog[i].val
           /\ wlog[i].after = AlignUp(wlog[i].before, 4) + 4 + Len(wlog[i].val) + pad
           /\ ReadBack(i) => rlog[i].after = wlog[i].after

C2_Witness ==
    /\ Len(rlog) = 2
    /\ wlog[2].kind = "string"
    /\ Len(wlog[2].val) = 4
    /\ wlog[2].after - wlog[2].before = 12
    /\ rlog[2].after = wlog[2].after

\* C3 as stated: a string read back equals the string written, and the field
\* takes a multiple of 4 bytes from the cursor before it to the cursor after it.
C3_StringFieldMultipleOf4 ==
    \A i \in StringItems : ReadBack(i) =>
        /\ rlog[i].val = wlog[i].val
        /\ (rlog[i].after - rlog[i].before) % 4 = 0

\* C3 (amended): a string read back equals the string written, the cursor after
\* the field is a multiple of 4, and the field takes a multiple of 4 bytes when
\* the cursor before it is a multiple of 4.
C3_StringRoundTrip ==
    \A i \in StringItems : ReadBack(i) =>
        /\ ~rlog[i].err
        /\ rlog[i].val = wlog[i].val
        /\ rlog[i].after % 4 = 0
        /\ rlog[i].before % 4 = 0 => (rlog[i].after - rlog[i].before) % 4 = 0

C3_Witness ==
    /\ Len(rlog) = 2
    /\ wlog[1].kind = "string" /\ Len(wlog[1].val) = 5
    /\ wlog[2].kind = "string" /\ Len(wlog[2].val) = 8
    /\ rlog[1].val = wlog[1].val
    /\ rlog[2].val = wlog[2].val
    /\ rlog[2].after - rlog[2].before = 16

\* C4: a scalar write or read of size s moves the cursor to the smallest
\* multiple of s at or after it and then transfers s bytes; the cursor ends on
\* a multiple of s and the bytes the writer skipped are zero.
C4_ScalarAlignment ==
    \A i \in ScalarItems :
        \E s \in {ModeSize(wlog[i].mode)} :
           /\ s \in {1, 2, 4}
           /\ wlog[i].after = AlignUp(wlog[i].before, s) + s
           /\ wlog[i].after % s = 0
           /\ \A j \in (wlog[i].before + 1)..AlignUp(wlog[i].before, s) : bf.data[j] = 0
           /\ SubSeq(bf.data, wlog[i].after - s + 1, wlog[i].after)
                = Pack(wlog[i].mode, wlog[i].val)
           /\ ReadBack(i) =>
                /\ rlog[i].after = AlignUp(rlog[i].before, s) + s
                /\ rlog[i].val = wlog[i].val

C4_Witness ==
    /\ Len(rlog) = 2
    /\ wlog[1].kind = "scalar" /\ wlog[1].mode = "b" /\ wlog[1].before = 2
    /\ wlog[2].kind = "scalar" /\ wlog[2].mode = "i"
    /\ wlog[2].before = 3 /\ wlog[2].after = 8
    /\ rlog[2].val = -3

(***************************************************************************)
(* Claims about build_all, checked under SpecBuild                         *)
(***************************************************************************)
Returned == built.status = "returned"
FolderConfigs == {i \in 1..Len(configs) : configs[i].type = "FOLDER"}
ReferenceConfigs == {i \in 1..Len(configs) : configs[i].type # "FOLDER"}

\* the position in the returned sources of the Source of FOLDER config i
FolderIndex(i) == Cardinality({j \in FolderConfigs : j <= i})

\* the returned animation built for the config called name
BuiltFor(name) == CHOOSE a \in {built.animations[k] : k \in 1..Len(built.animations)} :
                     a.name = name

\* the FOLDER configs a reference config names
Referenced(i) == {j \in FolderConfigs : configs[j].name = configs[i].reference_anim}

\* C6: build_all returns one Source per FOLDER config and none for the others;
\* the Layer of a FOLDER animation carries the id of its own Source, the Layer
\* of a COPY or FIRST_FRAME animation the id of the Source of the FOLDER
\* animation it references, so every Layer.source is the id of a returned Source.
C6_SourceAliasing ==
    Returned =>
      /\ Len(built.sources) = Cardinality(FolderConfigs)
      /\ Len(built.animations) = Len(configs)
      /\ \A i \in FolderConfigs :
           /\ built.sources[FolderIndex(i)].path
                = Animation_ \o <<95>> \o configs[i].name \o <<46, 120, 109, 108>>
           /\ BuiltFor(configs[i].name).layers[1].source
                = built.sources[FolderIndex(i)].id
      /\ \A i, j \in FolderConfigs :
           i # j => built.sources[FolderIndex(i)].id # built.sources[FolderIndex(j)].id
      /\ \A i \in ReferenceConfigs :
           \E j \in Referenced(i) :
              BuiltFor(configs[i].name).layers[1].source = built.sources[FolderIndex(j)].id
      /\ \A k \in 1..Len(built.animations) :
           /\ Len(built.animations[k].layers) = 1
           /\ \E m \in 1..Len(built.sources) :
                built.sources[m].id = built.animations[k].layers[1].source

C6_Witness ==
    /\ Returned
    /\ Len(configs) = 3
    /\ configs[1].type = "FOLDER"
    /\ configs[2].type = "COPY" /\ configs[2].reference_anim = configs[3].name
    /\ configs[3].type = "FOLDER"
    /\ Len(built.sources) = 2
    /\ BuiltFor(configs[2].name).layers[1].source = 1

\* C7: in the graph build_all returns, a FOLDER animation has frame_counts[name]
\* frames, a COPY animation as many frames as the animation it references, and
\* a FIRST_FRAME animation exactly 1 frame.
C7_FrameCounts ==
    Returned =>
      \A i \in 1..Len(configs) :
         Len(BuiltFor(configs[i].name).layers[1].frames) =
            CASE configs[i].type = "FOLDER" -> built.frame_counts[configs[i].name]
              [] configs[i].type = "COPY" ->
                   Len(BuiltFor(configs[i].reference_anim).layers[1].frames)
              [] configs[i].type = "FIRST_FRAME" -> 1

C7_Witness ==
    /\ Returned
    /\ Len(configs) = 3
    /\ configs[1].type = "FIRST_FRAME" /\ configs[1].reference_anim = configs[2].name
    /\ configs[2].type = "FOLDER" /\ built.frame_counts[configs[2].name] = 2
    /\ configs[3].type = "COPY" /\ configs[3].reference_anim = configs[2].name
    /\ Len(BuiltFor(configs[1].name).layers[1].frames) = 1
    /\ Len(BuiltFor(configs[3].name).layers[1].frames) = 2

\* a COPY or FIRST_FRAME config whose reference is absent from the configs,
\* is the config itself, or is another COPY or FIRST_FRAME config
Unresolved(i) == Referenced(i) = {}

\* C8: whenever some COPY or FIRST_FRAME config names a reference that is not a
\* FOLDER config, build_all raises, in whatever order the configs were added;
\* it returns no graph for such configs.
C8_UnresolvedRejected ==
    (built.status # "none" /\ \E i \in ReferenceConfigs : Unresolved(i))
       => built.status = "raised"

\* a chain: the second config copies the first, which is itself a COPY of the
\* FOLDER config added last and is built before the second
C8_Witness ==
    /\ built.status = "raised"
    /\ built.error = "Reference source not found"
    /\ Len(configs) = 3
    /\ configs[1].type = "COPY" /\ configs[1].reference_anim = configs[3].name
    /\ configs[2].type = "COPY" /\ configs[2].reference_anim = configs[1].name
    /\ configs[3].type = "FOLDER"
    /\ configs[3].name \in DOMAIN built.frame_counts

(***************************************************************************)
(* Claims about a compile run, checked under SpecRun                       *)
(***************************************************************************)
\* compile_animations returned: the binary file is complete
BinWritten ==
    \/ pc \in {"verify", "debug_info", "done"}
    \/ pc = "failed" /\ run.failed_at = "verify"

\* the binary file read from offset 0 with the read methods, each item where
\* the one before it ended
Decoded ==
    Bind(ReadScalar([data |-> bf.data, pos |-> 0, err |-> FALSE], "I"), LAMBDA n :
    Bind(ReadSources(n.f, n.v), LAMBDA srcs :
    Bind(ReadScalar(srcs.f, "I"), LAMBDA m :
    Bind(ReadAnimations(m.f, m.v), LAMBDA anims :
    Bind(ReadScalar(anims.f, "i"), LAMBDA zero :
    Bind(ReadString(zero.f), LAMBDA mark :
      [source_count |-> n.v, sources |-> srcs.v,
       animation_count |-> m.v, animations |-> anims.v,
       sentinel |-> zero.v, sentinel_at |-> anims.f.pos,
       watermark |-> mark.v, end |-> mark.f.pos, err |-> mark.f.err]))))))

\* C5: the binary file compile_animations wrote holds, from offset 0 and with
\* nothing in between, the UInt32 number of sources, the Sources in order, the
\* UInt32 number of animations, the Animations in order with their Layers and
\* Frames behind their counts, an Int32 0 and last the watermark string.
C5_BinaryLayout ==
    BinWritten =>
      /\ ~Decoded.err
      /\ Decoded.source_count = Len(run.sources)
      /\ Decoded.sources = run.sources
      /\ Decoded.animation_count = Len(run.animations)
      /\ Decoded.animations = run.animations
      /\ Decoded.sentinel = 0
      /\ SubSeq(bf.data, Decoded.sentinel_at + 1, Decoded.sentinel_at + 4) = <<0, 0, 0, 0>>
      /\ Decoded.watermark = Watermark
      /\ Decoded.end = bf.pos
      /\ Len(bf.data) = Decoded.sentinel_at + 8 + Len(Watermark)

C5_Witness ==
    /\ pc = "done"
    /\ fs0 = UsedRoot
    /\ Len(run.sources) = 2
    /\ Len(run.animations) = 2
    /\ Len(run.animations[2].layers[1].frames) = MaxFrames
    /\ Decoded.animations = run.animations

\* the statements of the run up to graph assembly
BeforeOutput == {"validate", "setup_processor", "process_all", "setup_builder", "build_all"}

\* C9: a run that fails in frame processing or graph assembly has created no
\* output directory, deleted no previous output file and written no file: the
\* output root is as it was when the run started.
C9_FailureBeforeOutput ==
    /\ (pc = "failed" /\ run.failed_at \in BeforeOutput) => fs = fs0
    /\ pc \in BeforeOutput => fs = fs0

C9_Witness ==
    /\ pc = "failed"
    /\ run.failed_at = "build_all"
    /\ run.error = "Reference animation not found"
    /\ fs0 = UsedRoot
    /\ \E i \in 1..Len(run.configs) :
          /\ run.configs[i].type = "COPY"
          /\ run.configs[i].reference_anim \notin ConfigNames(run.configs)

\* C10 as stated: after a failed run none of the PNG, XML or binary files of
\* the run exist in the output directories.
C10_AllOrNothing ==
    pc = "failed" => RunFiles = {}

\* the FOLDER configs of the run, in insertion order: one Source each
RunFolderNames ==
    [k \in 1..Len(run.processed_frames) |-> run.processed_frames[k].name]

\* C11 as stated: after compile_animations every Source has the path of the
\* atlas XML of its FOLDER animation, and the width and height of that
\* animation's first processed frame, a canvas of target_size; none has 0.
C11_SourceBackfill ==
    BinWritten =>
      /\ Len(run.sources) = Len(RunFolderNames)
      /\ \A k \in 1..Len(run.sources) :
           /\ run.sources[k].path
                = run.common_name \o <<95>> \o RunFolderNames[k] \o Xml
           /\ run.sources[k].width = target_size
           /\ run.sources[k].height = target_size
           /\ Decoded.sources[k].width # 0
           /\ Decoded.sources[k].height # 0

\* the names of the configs that satisfy Test, in insertion order
NamesWhere(Test(_)) ==
    [k \in 1..Len(SelectSeq(configs, Test)) |-> SelectSeq(configs, Test)[k].name]
IsFolder(config) == config.type = "FOLDER"
IsReference(config) == config.type # "FOLDER"

\* C12: when build_all returns, the Animation list holds exactly one Animation
\* for every registered config name and none for any other name; configs that
\* cannot all be resolved make it raise instead.
C12_AssemblerCoverage ==
    Returned =>
      /\ Len(built.animations) = Len(configs)
      /\ {built.animations[k].name : k \in 1..Len(built.animations)} = ConfigNames(configs)
      /\ \A j, k \in 1..Len(built.animations) :
           built.animations[j].name = built.animations[k].name => j = k
      /\ \A i \in ReferenceConfigs : ~Unresolved(i)
      /\ \A i \in FolderConfigs : configs[i].name \in DOMAIN built.frame_counts

C12_Witness ==
    /\ Returned
    /\ Len(configs) = 3
    /\ configs[1].type = "FOLDER"
    /\ configs[2].type = "FIRST_FRAME"
    /\ configs[3].type = "COPY"
    /\ {built.animations[k].name : k \in 1..3} = Names

\* C13: in every graph build_all returns, also when it ran before on the same
\* builder, Source ids are 0, 1, ... in list order and Layer ids are 0, 1, ...
\* in list order, FOLDER animations in insertion order first and then the COPY
\* and FIRST_FRAME animations in insertion order; each counter ends at the
\* length of its list; after reset() both counters are 0 and configs is empty.
C13_IdCounters ==
    /\ Returned =>
         /\ \A k \in 1..Len(built.sources) : built.sources[k].id = k - 1
         /\ \A k \in 1..Len(built.animations) : built.animations[k].layers[1].id = k - 1
         /\ [k \in 1..Len(built.animations) |-> built.animations[k].name]
              = NamesWhere(IsFolder) \o NamesWhere(IsReference)
         /\ source_counter = Len(built.sources)
         /\ layer_counter = Len(built.animations)
    /\ built.status = "none" => (source_counter = 0 /\ layer_counter = 0)

C13_Witness ==
    /\ Returned
    /\ Len(configs) = 3
    /\ configs[1].type = "COPY"
    /\ configs[2].type = "FOLDER"
    /\ configs[3].type = "FOLDER"
    /\ built.animations[3].name = configs[1].name
    /\ built.animations[3].layers[1].id = 2
    /\ built.sources[2].id = 1
    /\ source_counter = 2
    /\ layer_counter = 3

(***************************************************************************)
(* Claims about the spritesheet packer and the image processor (SpecImage) *)
(***************************************************************************)
\* c = ceil(n / d) for positive d, stated without the division
IsCeilDiv(c, n, d) == c * d >= n /\ (c - 1) * d < n

\* c = ceil(sqrt(n)), stated without the root
IsCeilSqrt(c, n) == c >= 0 /\ c * c >= n /\ (c = 0 \/ (c - 1) * (c - 1) < n)

\* C14: packing n >= 1 frames of size w x h uses cols = ceil(sqrt(n)) and
\* rows = ceil(n / cols), puts frame i at ((i mod cols) * w, (i div cols) * h)
\* in an atlas of cols * w by rows * h; 5 frames of 64 x 64 give cols 3,
\* rows 2, atlas 192 x 128 and frame 4 at (64, 64); packing no frame fails
\* and gives no atlas.
C14_SpritesheetLayout ==
    result.op = "create_spritesheet" =>
      IF result.n = 0
      THEN /\ result.error # ""
           /\ result.sheet = NoSheet
           /\ result.frame_positions = <<>>
      ELSE /\ result.error = ""
           /\ IsCeilSqrt(result.sheet.cols, result.n)
           /\ IsCeilDiv(result.sheet.rows, result.n, result.sheet.cols)
           /\ result.sheet.width = result.sheet.cols * result.size[1]
           /\ result.sheet.height = result.sheet.rows * result.size[2]
           /\ Len(result.frame_positions) = result.n
           /\ \A i \in 0..(result.n - 1) :
                result.frame_positions[i + 1]
                  = << (i % result.sheet.cols) * result.size[1],
                       (i \div result.sheet.cols) * result.size[2] >>
           /\ (result.n = 5 /\ result.size = <<64, 64>>) =>
                /\ result.sheet = [cols |-> 3, rows |-> 2, width |-> 192, height |-> 128]
                /\ result.frame_positions[5] = <<64, 64>>

C14_Witness ==
    /\ result.op = "create_spritesheet"
    /\ result.n = 5
    /\ result.size = <<64, 64>>
    /\ result.error = ""
    /\ result.frame_positions[5] = <<64, 64>>

\* the boxes find_bbox returns for the frames
FrameBoxes == [k \in 1..Len(images) |-> FindBbox(images[k]).box]

Orders(seq) ==
    { [k \in 1..Len(seq) |-> seq[f[k]]] :
        f \in { g \in [1..Len(seq) -> 1..Len(seq)] :
                  \A a, b \in 1..Len(seq) : g[a] = g[b] => a = b } }

Contains(outer, inner) ==
    /\ outer.left <= inner.left
    /\ outer.top <= inner.top
    /\ outer.right >= inner.right
    /\ outer.bottom >= inner.bottom

\* C18: the global bounding box of a non-empty list of frames is the
\* envelope of their boxes: the least left and top, the greatest right and
\* bottom; it is the same for every order of the list and contains every
\* frame's box.
C18_GlobalEnvelope ==
    (result.op = "compute_global_bbox" /\ result.error = "") =>
      /\ images # <<>>
      /\ \A k \in 1..Len(images) :
           /\ Contains(result.box, FrameBoxes[k])
           /\ FindBbox(images[k]).error = ""
      /\ \E k \in 1..Len(images) : result.box.left = FrameBoxes[k].left
      /\ \E k \in 1..Len(images) : result.box.top = FrameBoxes[k].top
      /\ \E k \in 1..Len(images) : result.box.right = FrameBoxes[k].right
      /\ \E k \in 1..Len(images) : result.box.bottom = FrameBoxes[k].bottom
      /\ \A p \in Orders(images) :
           ComputeGlobalBbox(p) = [error |-> "", box |-> result.box]

C18_Witness ==
    /\ result.op = "compute_global_bbox"
    /\ result.error = ""
    /\ Len(images) = MaxPaths
    /\ \A k \in 1..Len(images) : result.box # FrameBoxes[k]
    /\ FrameBoxes[1].left > result.box.left
    /\ FrameBoxes[1].top > result.box.top

\* the pixels of alpha > 0, as <<column, row>> counted from 0
OpaquePixels(image) ==
    { <<c, r>> \in (0..(Width(image) - 1)) \X (0..(Height(image) - 1)) :
         image[r + 1][c + 1] > 0 }

\* C19: for an image with a pixel of alpha > 0, find_bbox returns a box of
\* width and height at least 1, with exclusive right and bottom, that
\* contains every such pixel and touches one with each edge; for an image
\* with no such pixel it fails and returns no box, and process_all fails
\* when any frame of any FOLDER animation is such an image.
C19_AlphaBbox ==
    /\ result.op = "find_bbox" =>
         IF OpaquePixels(result.image) # {}
         THEN /\ result.error = ""
              /\ result.box.right - result.box.left >= 1
              /\ result.box.bottom - result.box.top >= 1
              /\ \A px \in OpaquePixels(result.image) :
                   /\ result.box.left <= px[1] /\ px[1] < result.box.right
                   /\ result.box.top <= px[2] /\ px[2] < result.box.bottom
              /\ \E px \in OpaquePixels(result.image) : px[1] = result.box.left
              /\ \E px \in OpaquePixels(result.image) : px[1] = result.box.right - 1
              /\ \E px \in OpaquePixels(result.image) : px[2] = result.box.top
              /\ \E px \in OpaquePixels(result.image) : px[2] = result.box.bottom - 1
         ELSE /\ result.error # ""
              /\ result.box = NoBox
    /\ result.op = "process_all" =>
         ((\E a \in 1..Len(result.animations) :
             \E k \in 1..Len(result.animations[a].paths) :
                OpaquePixels(result.animations[a].paths[k]) = {})
            => (result.error # "" /\ result.processed = <<>>))

C19_Witness ==
    /\ result.op = "find_bbox"
    /\ result.error = ""
    /\ Width(result.image) = MaxW
    /\ Height(result.image) = MaxH
    /\ result.box = [left |-> 1, top |-> 1, right |-> MaxW, bottom |-> MaxH]

\* a fully transparent frame in the second FOLDER animation stops process_all
C19_WitnessTransparent ==
    /\ result.op = "process_all"
    /\ Len(result.animations) = 2
    /\ OpaquePixels(result.animations[1].paths[1]) # {}
    /\ \E k \in 1..Len(result.animations[2].paths) :
          OpaquePixels(result.animations[2].paths[k]) = {}
    /\ result.error # ""

(***************************************************************************)
(* Claims about the editor (SpecUi)                                        *)
(***************************************************************************)
IsNumber(text) == ParseFloat(text).ok

\* the configuration errors of a row that has a name
RowError(row) ==
    /\ Strip(row.name) # <<>>
    /\ \/ ~IsNumber(row.fps)
       \/ ParseFloat(row.fps).value <= 0
       \/ ~IsNumber(row.position_x)
       \/ ~IsNumber(row.position_y)
       \/ ~IsNumber(row.scale)
       \/ (row.type = "FOLDER" /\ (row.source = "" \/ ~Folders[row.source].is_dir))
       \/ (row.type # "FOLDER" /\ row.target = <<>>)

DuplicateName ==
    \E j, k \in 1..Len(rows) :
       j # k /\ Strip(rows[j].name) # <<>> /\ Strip(rows[j].name) = Strip(rows[k].name)

\* C20: when a row has a configuration error (a malformed or non-positive
\* number, no source directory, no reference, a duplicate name), the handler
\* does not start a compile: _process_animations is never called with the
\* other rows.
C20_ConfigErrorsFatal ==
    ui.state = "compiling" =>
      /\ \A k \in 1..Len(rows) : ~RowError(rows[k])
      /\ ~DuplicateName

\* the compile started with the Idle row alone while the Walk row's fps is
\* not a number
C20_Divergence ==
    /\ ui.state = "compiling"
    /\ Len(rows) = 2
    /\ rows[2] = Row(Walk, Abc, Zero, Hundred, "FOLDER", "frames", <<>>)
    /\ ConfigNames(ui.configs) = {Idle}
    /\ ui.shown = <<"Invalid value">>

(***************************************************************************)
(* Claims about the output stage of the run (SpecRun)                      *)
(***************************************************************************)
\* name is prefix, any text, suffix
HasAffixes(name, prefix, suffix) ==
    /\ Len(name) >= Len(prefix) + Len(suffix)
    /\ SubSeq(name, 1, Len(prefix)) = prefix
    /\ SubSeq(name, Len(name) - Len(suffix) + 1, Len(name)) = suffix

\* the sheets of the common name in the output directories, and the binary file
Sheets(root) ==
    { file \in root.files :
        \/ file.dir = "gfx/bori" /\ HasAffixes(file.name, run.common_name \o <<95>>, Png)
        \/ file.dir = "xml_resources" /\ HasAffixes(file.name, run.common_name \o <<95>>, Xml) }

BinFiles(root) ==
    { file \in root.files : file.dir = "xml_bin" /\ file.name = run.bin_name \o Bin }

\* the files the patterns of the run match
Matching(root) ==
    Glob(root, "gfx/bori", run.common_name \o <<95>>, Png)
      \cup Glob(root, "xml_resources", run.common_name \o <<95>>, Xml)
      \cup BinFiles(root)

\* C15: every file that was in the output directories when the run started and
\* matches {common_name}_*.png, {common_name}_*.xml or is {bin_name}.bin is
\* deleted before the run writes a file, and after a successful run every
\* {common_name}_ PNG and XML there was written by this run.
C15_StaleCleanup ==
    /\ pc = "compile_animations" => Matching(fs) = {}
    /\ RunFiles # {} => \A file \in Matching(fs) : file.content = "run"
    /\ pc = "done" => \A file \in Sheets(fs) \cup BinFiles(fs) : file.content = "run"

C15_Witness ==
    /\ pc = "done"
    /\ fs0 = UsedRoot
    /\ Previous("gfx/bori", Animation_ \o <<95>> \o Hit \o Png) \in Sheets(fs0)
    /\ \A file \in fs.files : file.name # Animation_ \o <<95>> \o Hit \o Png
    /\ \E file \in Sheets(fs) : file.name = Animation_ \o <<95>> \o Idle \o Png
    /\ Previous("", <<110, 111, 116, 101, 115>>) \in fs.files

\* C16: the run goes on to report success only when, after compilation, a
\* {common_name}_*.png is in the gfx directory, a {common_name}_*.xml in the xml
\* directory and {bin_name}.bin in the bin directory; when one is missing the
\* run fails with an error.
C16_OutputVerification ==
    /\ pc \in {"debug_info", "done"} =>
         /\ Glob(fs, "gfx/bori", run.common_name \o <<95>>, Png) # {}
         /\ Glob(fs, "xml_resources", run.common_name \o <<95>>, Xml) # {}
         /\ BinFiles(fs) # {}
         /\ \E file \in Sheets(fs) : file.dir = "gfx/bori"
         /\ \E file \in Sheets(fs) : file.dir = "xml_resources"
         /\ run.error = ""
    /\ (pc = "failed" /\ run.failed_at = "verify") =>
         /\ run.error = "Failed to create all required output files"
         /\ \/ Glob(fs, "gfx/bori", run.common_name \o <<95>>, Png) = {}
            \/ Glob(fs, "xml_resources", run.common_name \o <<95>>, Xml) = {}
            \/ BinFiles(fs) = {}

\* no file matches the patterns of the common name "[A]": the run fails
C16_Witness ==
    /\ pc = "failed"
    /\ run.failed_at = "verify"
    /\ run.common_name = BracketA
    /\ Glob(fs, "gfx/bori", run.common_name \o <<95>>, Png) = {}
    /\ BinFiles(fs) # {}

\* C17: a second run with the same configuration, names and output root, over
\* the first run's output and on the same builder and compiler, does not fail
\* and ends with the same output files, the same bytes in the binary file, the
\* same processed frames and the same Sources and Animations, ids and order
\* included.
C17_IdempotentCompile ==
    (pc # "idle" /\ run.round = 2) =>
      /\ pc # "failed"
      /\ pc = "done" =>
           /\ { <<file.dir, file.name>> : file \in RunFiles } = run.first.files
           /\ { <<file.dir, file.name>> : file \in fs.files }
                = { <<file.dir, file.name>> : file \in fs0.files }
           /\ bf.data = run.first.data
           /\ run.processed_frames = run.first.processed_frames
           /\ run.sources = run.first.sources
           /\ run.animations = run.first.animations
           /\ \A k \in 1..Len(run.sources) : run.sources[k].id = k - 1
           /\ \A k \in 1..Len(run.animations) : run.animations[k].layers[1].id = k - 1

C17_Witness ==
    /\ pc = "done"
    /\ run.round = 2
    /\ Len(run.sources) = 1
    /\ Len(run.animations) = 2
    /\ run.first.animations = run.animations
    /\ Len(run.first.data) > 0
    /\ \A file \in Sheets(fs) : file.content = "run"

(***************************************************************************)
(* Claims about the frames the builder generates (SpecBuild)               *)
(***************************************************************************)
\* C22 as stated: in every graph build_all returns, an Animation has exactly
\* one Layer, with parent -1, and every Frame of it has position, scale,
\* rotation, opacity and sprite SET and color UNSET; frame i has the sprite
\* name frame_{i:03}, frame 0 has time 0 and the times strictly increase.
C22_GeneratedFrames ==
    Returned =>
      \A a \in 1..Len(built.animations) :
         /\ Len(built.animations[a].layers) = 1
         /\ built.animations[a].layers[1].parent = -1
         /\ \A k \in 1..Len(built.animations[a].layers[1].frames) :
              \E frame \in {built.animations[a].layers[1].frames[k]} :
                 /\ frame.position.immediate = SET
                 /\ frame.scale.immediate = SET
                 /\ frame.rotation.immediate = SET
                 /\ frame.opacity.immediate = SET
                 /\ frame.sprite.immediate = SET
                 /\ frame.color.immediate = UNSET
                 /\ frame.sprite.name = SpriteName(k - 1)
                 /\ k = 1 => frame.time = 0
                 /\ k > 1 => frame.time > built.animations[a].layers[1].frames[k - 1].time

\* an fps of infinity: the graph is returned with every frame at time 0
C22_Divergence ==
    /\ Returned
    /\ \E i \in 1..Len(configs) : configs[i].fps = Infinity
    /\ \E a \in 1..Len(built.animations) :
          /\ Len(built.animations[a].layers[1].frames) = MaxFrames
          /\ \A k \in 1..MaxFrames : built.animations[a].layers[1].frames[k].time = 0

(***************************************************************************)
(* Claims about the geometry of an atlas (SpecImage)                       *)
(***************************************************************************)
\* the rectangle of frame k of the atlas in result: left, top, right, bottom
FrameRect(k) ==
    [left |-> result.frame_positions[k][1],
     top |-> result.frame_positions[k][2],
     right |-> result.frame_positions[k][1] + result.frame_size[1],
     bottom |-> result.frame_positions[k][2] + result.frame_size[2]]

Disjoint(a, b) ==
    \/ a.right <= b.left
    \/ b.right <= a.left
    \/ a.bottom <= b.top
    \/ b.bottom <= a.top

\* C24: for n >= 1 frames the grid is near-square and has no empty row:
\* cols - 1 <= rows <= cols and (rows - 1) * cols < n <= rows * cols; every
\* frame's rectangle lies inside the atlas and no two frames overlap.
C24_AtlasGeometry ==
    (result.op = "create_spritesheet" /\ result.n >= 1) =>
      /\ result.sheet.cols - 1 <= result.sheet.rows
      /\ result.sheet.rows <= result.sheet.cols
      /\ (result.sheet.rows - 1) * result.sheet.cols < result.n
      /\ result.n <= result.sheet.rows * result.sheet.cols
      /\ \A k \in 1..result.n :
           /\ FrameRect(k).left >= 0
           /\ FrameRect(k).top >= 0
           /\ FrameRect(k).right <= result.sheet.width
           /\ FrameRect(k).bottom <= result.sheet.height
      /\ \A j, k \in 1..result.n : j # k => Disjoint(FrameRect(j), FrameRect(k))

\* a last row that is not full, and frames that are not square
C24_Witness ==
    /\ result.op = "create_spritesheet"
    /\ result.n = 5
    /\ result.size = <<64, 32>>
    /\ result.sheet.rows * result.sheet.cols > result.n
    /\ FrameRect(result.n).bottom = result.sheet.height

(***************************************************************************)
(* Claims about the length of the binary file (SpecRun)                    *)
(***************************************************************************)
\* C28 as stated: when compile_animations has closed the binary file, the
\* length of the file is the writer's final cursor, so the padding after the
\* watermark string is in the file and a reader stays inside the file.
C28_FileLength ==
    BinWritten =>
      /\ Len(bf.data) = bf.pos
      /\ Decoded.end <= Len(bf.data)

\* the file ends with the last character of the watermark, two bytes before
\* the cursor of the writer and of a reader
C28_Divergence ==
    /\ BinWritten
    /\ bf.pos = Len(bf.data) + 2
    /\ Decoded.end = Len(bf.data) + 2
    /\ bf.data[Len(bf.data)] = Watermark[Len(Watermark)]

(***************************************************************************)
(* Claims about which animations get an atlas (SpecRun)                    *)
(***************************************************************************)
\* the names of the FOLDER configs of the run, in the order of the table
RECURSIVE FolderNamesOf(_)
FolderNamesOf(cfgs) ==
    IF cfgs = <<>> THEN <<>>
    ELSE IF Head(cfgs).type = "FOLDER"
         THEN <<Head(cfgs).name>> \o FolderNamesOf(Tail(cfgs))
    ELSE FolderNamesOf(Tail(cfgs))

\* process_all has returned in this run
Processed ==
    \/ pc \in {"setup_builder", "build_all", "set_output_path", "cleanup_old_files",
               "compile_animations", "verify", "debug_info", "done"}
    \/ pc = "failed" /\ run.failed_at \in {"setup_builder", "build_all",
                                             "compile_animations", "verify"}

\* C25: the processed frames process_all returns have the FOLDER names as
\* keys and no COPY or FIRST_FRAME name, so the run writes one PNG and one XML
\* for every FOLDER animation and no other, as many as the binary file has
\* Sources.
C25_OnlyFolderAtlases ==
    /\ Processed => RunFolderNames = FolderNamesOf(run.configs)
    /\ BinWritten =>
         /\ { file.name : file \in { f \in RunFiles : f.dir = "gfx/bori" } }
              = { run.common_name \o <<95>> \o n \o Png :
                    n \in ConfigNames(SelectSeq(run.configs, IsFolder)) }
         /\ { file.name : file \in { f \in RunFiles : f.dir = "xml_resources" } }
              = { run.common_name \o <<95>> \o n \o Xml :
                    n \in ConfigNames(SelectSeq(run.configs, IsFolder)) }
         /\ Cardinality({ f \in RunFiles : f.dir = "gfx/bori" }) = Decoded.source_count
         /\ Cardinality({ f \in RunFiles : f.dir = "xml_resources" }) = Len(run.sources)

C25_Witness ==
    /\ pc = "done"
    /\ Len(run.configs) = 2
    /\ run.configs[1].type = "FOLDER"
    /\ run.configs[2].type = "COPY"
    /\ Len(run.processed_frames) = 1
    /\ Cardinality({ f \in RunFiles : f.dir = "gfx/bori" }) = 1
    /\ Len(run.animations) = 2

(***************************************************************************)
(* Claims about the processor's registries (SpecRegistry)                  *)
(***************************************************************************)
\* the names some registry of the processor holds
Registered(proc) ==
    ProcessorNames(proc) \cup DOMAIN proc.animation_types \cup DOMAIN proc.source_refs

\* C27 as stated: after any add_animation calls every name of the frame-path
\* registry has a type and a non-empty path list, a call that raised left the
\* registries as they were, and a call with a name already added raised.
C27_RegistryConsistency ==
    pc = "registry" =>
      /\ \A i \in 1..Len(run.processor.animations) :
           /\ run.processor.animations[i].name \in DOMAIN run.processor.animation_types
           /\ run.processor.animations[i].paths > 0
      /\ run.error # "" => run.processor = run.before
      /\ (run.calls > 0 /\ run.config.name \in Registered(run.before)) => run.error # ""

\* add_animation raised "No PNG files found" and left the name in the
\* frame-path registry with no path and no type
C27_Divergence ==
    /\ pc = "registry"
    /\ run.error = "No PNG files found"
    /\ run.processor # run.before
    /\ \E i \in 1..Len(run.processor.animations) :
          /\ run.processor.animations[i].name = run.config.name
          /\ run.processor.animations[i].paths = 0
          /\ run.config.name \notin DOMAIN run.processor.animation_types

\* a second COPY call with the name of the first returned without an error
C27_DivergenceSameName ==
    /\ pc = "registry"
    /\ run.error = ""
    /\ run.config.type = "COPY"
    /\ run.config.name \in DOMAIN run.before.source_refs

\* C26: in process_frame, for every global box at least 1 wide and 1 high and
\* every target size T in 1..4096, the scaled size has both dimensions in
\* 1..T, both paste offsets are at least 0 and the scaled image lies inside
\* the T x T canvas.
C26_ScaledFits ==
    result.op = "process_frame" =>
      /\ result.frame.scaled[1] \in 1..result.target_size
      /\ result.frame.scaled[2] \in 1..result.target_size
      /\ result.frame.final_offset[1] >= 0
      /\ result.frame.final_offset[2] >= 0
      /\ result.frame.final_offset[1] + result.frame.scaled[1] <= result.target_size
      /\ result.frame.final_offset[2] + result.frame.scaled[2] <= result.target_size

\* a box 193 wide and 1 high at target size 192 is scaled to height 0
C26_Divergence ==
    /\ result.op = "process_frame"
    /\ result.target_size = 192
    /\ BoxWidth(result.global_bbox) = 193
    /\ BoxHeight(result.global_bbox) = 1
    /\ result.frame.scaled = <<192, 0>>


\* the processed frames of all animations of the run
ProcessedFrames ==
    { result.processed[a].frames[k] :
        <<a, k>> \in { <<b, j>> \in (1..Len(result.processed)) \X (1..MaxPaths + 1) :
                          j <= Len(result.processed[b].frames) } }

\* C21: in process_all the global bounding box is computed over the frames
\* of all FOLDER animations before the first per-frame transform, every frame
\* of every animation is cropped to that box, and all processed frames of the
\* run have the same canvas size and the same paste offset.
C21_SingleGlobalBbox ==
    (result.op = "process_all" /\ result.error = "") =>
      /\ Head(result.order) = "compute_global_bbox"
      /\ \A k \in 2..Len(result.order) : result.order[k] = "process_frame"
      /\ Len(result.order) = 1 + Cardinality(
           { <<a, k>> \in (1..Len(result.animations)) \X (1..MaxPaths + 1) :
                k <= Len(result.animations[a].paths) })
      /\ \A f \in ProcessedFrames :
           /\ f.crop = result.box
           /\ Contains(result.box, f.original_bbox)
      /\ \E f \in ProcessedFrames : result.box.left = f.original_bbox.left
      /\ \E f \in ProcessedFrames : result.box.top = f.original_bbox.top
      /\ \E f \in ProcessedFrames : result.box.right = f.original_bbox.right
      /\ \E f \in ProcessedFrames : result.box.bottom = f.original_bbox.bottom
      /\ \A f, g \in ProcessedFrames :
           /\ f.canvas = g.canvas
           /\ f.final_offset = g.final_offset

\* two animations whose frames have different boxes, none of them the global one
C21_Witness ==
    /\ result.op = "process_all"
    /\ result.error = ""
    /\ Len(result.processed) = 2
    /\ \A a \in 1..2 : result.processed[a].frames # <<>>
    /\ \A f \in ProcessedFrames : f.original_bbox # f.crop
    /\ \E f, g \in ProcessedFrames : f.original_bbox # g.original_bbox
    /\ result.processed[1].frames[1].original_bbox
         # result.processed[2].frames[1].original_bbox

\* the Source a Layer references, as compile_animations left it
SourceOf(layer) ==
    CHOOSE source \in { run.sources[i] : i \in 1..Len(run.sources) } :
       source.id = layer.source

TypeOf(name) ==
    (CHOOSE config \in { run.configs[i] : i \in 1..Len(run.configs) } :
        config.name = name).type

\* the frames' sprite names are the first names of the atlas
LinesUp(layer, atlas) ==
    /\ Len(layer.frames) <= Len(atlas)
    /\ \A k \in 1..Len(layer.frames) : layer.frames[k].sprite.name = atlas[k]

\* C23: after a successful run every frame's sprite name is the n attribute
\* of a sprite entry in the atlas XML written for the Source its Layer
\* references; a FOLDER animation has as many Layer frames as its atlas has
\* sprite entries, and the frame names of COPY and FIRST_FRAME animations are
\* a prefix of the referenced atlas's sprite names.
C23_SpriteNamesLineUp ==
    pc = "done" =>
      \A i \in 1..Len(run.animations) :
         \E layer \in {run.animations[i].layers[1]} :
            /\ \E source \in { run.sources[j] : j \in 1..Len(run.sources) } :
                  source.id = layer.source
            /\ SourceOf(layer).path \in DOMAIN run.atlases
            /\ [dir |-> "xml_resources", name |-> SourceOf(layer).path,
                content |-> "run"] \in fs.files
            /\ LinesUp(layer, run.atlases[SourceOf(layer).path])
            /\ TypeOf(run.animations[i].name) = "FOLDER"
                 => Len(layer.frames) = Len(run.atlases[SourceOf(layer).path])

\* animations Idle and Animation_Idle.xml: the Source of Idle is given the
\* XML of the other animation, which has fewer sprite entries than Idle has
\* frames
C23_Divergence ==
    /\ pc = "done"
    /\ Len(run.animations) = 2
    /\ run.animations[1].name = Idle
    /\ SourceOf(run.animations[1].layers[1]).path
         = Animation_ \o <<95>> \o Animation_Idle_xml \o Xml
    /\ Len(run.animations[1].layers[1].frames) = MaxFrames
    /\ Len(run.atlases[SourceOf(run.animations[1].layers[1]).path]) = 1

\* a run without such a name: a FOLDER animation and a COPY of it, whose
\* sprite names line up with the one atlas
C23_LinesUpOtherwise ==
    /\ pc = "done"
    /\ Len(run.animations) = 2
    /\ { TypeOf(run.animations[i].name) : i \in 1..2 } = {"FOLDER", "COPY"}
    /\ \A i \in 1..2 :
          /\ SourceOf(run.animations[i].layers[1]).path \in DOMAIN run.atlases
          /\ Len(run.animations[i].layers[1].frames) = MaxFrames
          /\ LinesUp(run.animations[i].layers[1],
                     run.atlases[SourceOf(run.animations[i].layers[1]).path])

\* the playback threads inside the loop of _animate
InLoop == { t \in 1..Len(ui.threads) : ui.threads[t].pc \notin {"while", "exit"} }

\* C29: under any sequence of toggle_play and close events interleaved with
\* the playback threads' steps, at most one _animate thread is inside its
\* loop at any time; pausing and resuming never leaves two threads advancing
\* current_frame.
C29_SinglePlaybackThread ==
    ui.state = "preview" => Cardinality(InLoop) <= 1

\* after a pause and a resume during the first thread's sleep, both threads
\* are about to write current_frame
C29_Divergence ==
    /\ ui.state = "preview"
    /\ ui.window
    /\ ui.playing
    /\ Len(ui.threads) = 2
    /\ \A t \in 1..2 : ui.threads[t].pc = "store"

\* C30: every frame index that _animate puts on the queue and _update
\* dequeues is in 0..len(frames)-1, under every interleaving of the playback
\* threads, toggle_play and close; _update never indexes photo_images out of
\* range.
C30_FrameIndexInRange ==
    ui.state = "preview" =>
      /\ \A k \in 1..Len(ui.queue) : ui.queue[k] \in 0..(ui.frames - 1)
      /\ ui.error # "IndexError"

\* _update has taken the index len(frames) from the queue
C30_Divergence ==
    /\ ui.state = "preview"
    /\ ui.window
    /\ ui.error = "IndexError"
    /\ Len(ui.threads) = 2

\* with one playback thread only, indices in range are queued and drawn
C30_OneThreadInRange ==
    (ui.state = "preview" /\ Len(ui.threads) = 1) =>
      /\ \A k \in 1..Len(ui.queue) : ui.queue[k] \in 0..(ui.frames - 1)
      /\ ui.error = ""

====
